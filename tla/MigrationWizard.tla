-------------------------- MODULE MigrationWizard --------------------------
(***************************************************************************)
(* The five-step form that makes a migration run (new/page.tsx): SQL,      *)
(* connection, schema, structure, review.  The run is made by the server   *)
(* when the user connects, from the draft as it is then; the form goes on  *)
(* with the copy of the run the answer brought.  One request is under way  *)
(* at a time, except the question at mount whether a pinned run waits.     *)
(* While a request is under way the user may still go back, edit and leave *)
(* the page: the answer is then applied to whatever the form has become.   *)
(***************************************************************************)
EXTENDS RunMapping, FiniteSets

CONSTANTS
    RunId,      \* ids the server may give
    Draft,      \* statements the user may write
    DemoSql     \* the statement the demo endpoint records

ASSUME WizardAssumption ==
    /\ RunId # {} /\ None \notin RunId
    /\ None \notin Draft \cup {DemoSql} /\ "" \notin Draft

\* What is missing is no answer, and no place a request can be at.
ASSUME NoneAssumption ==
    /\ None \notin {"sent", "answered", "failed"}
    /\ None \notin [id : RunId, sql : Draft \cup {DemoSql, ""},
                    status : {"pending", "awaiting_approval", "deleted"},
                    discovery : {None, "succeeded", "failed"}]

VARIABLES
    runs,     \* the server: the runs it has, id -> run
    pin,      \* local storage: the current run's id
    page,     \* the page that is open; "left" once the form was left
    form,     \* the wizard's state, closed when another page is open
    call,     \* its request: the operation, where it is, what it captured
    asked     \* the pinned id the mount asks about, until it is answered

wizardVars == <<runs, pin, page, form, call, asked>>

-----------------------------------------------------------------------------
(* The server, as far as the wizard sees it. *)

NewRun(text, discovery) ==
    [sql |-> text, status |-> "pending", discovery |-> discovery, arn |-> None,
     workflow |-> "not_started", execution |-> None, cluster |-> None]

\* A discarded run's row is deleted, and its id is not given again.
Exists(id) == id \in DOMAIN runs /\ runs[id].status # "deleted"

WithRow(id, row) == [r \in DOMAIN runs \cup {id} |-> IF r = id THEN row ELSE runs[r]]

\* Which of the unused ids a run gets makes no difference.
NewIds == IF RunId = DOMAIN runs THEN {} ELSE {CHOOSE id \in RunId : id \notin DOMAIN runs}

\* What an answer carries: the row at that moment.
Answer(id) == [id |-> id, sql |-> runs[id].sql, status |-> runs[id].status,
               discovery |-> runs[id].discovery]

-----------------------------------------------------------------------------
(* The form. *)

NewForm == [step |-> 0, tab |-> "fields", sql |-> "", run |-> None, schema |-> None,
            table |-> FALSE, busy |-> None, resumable |-> None, error |-> FALSE]

NoCall == [op |-> None, at |-> None, id |-> None, answer |-> None]
Sent(op, id) == [op |-> op, at |-> "sent", id |-> id, answer |-> None]

Connected == form.run # None /\ form.schema # None

\* A Continue button is off while the step lacks what it is for, or busy.
NextDisabled ==
    \/ form.step = 0 /\ form.sql = ""
    \/ form.step = 1 /\ ~Connected
    \/ form.step = 2 /\ ~form.table

OnForm == page = "wizard"
SetForm(f) == form' = IF OnForm THEN f ELSE form

\* mapSchema of a run whose discovery succeeded is that run's schema.
SchemaOf(answer) == IF answer.discovery = "succeeded" THEN answer.id ELSE None

\* The question asked at mount; a run that is gone is nothing to resume.
CheckResumable ==
    /\ asked # None
    /\ asked' = None
    /\ \/ /\ Exists(asked) /\ runs[asked].status = "pending"
          /\ SetForm([form EXCEPT !.resumable = Answer(asked)])
       \/ UNCHANGED form
    /\ UNCHANGED <<runs, pin, page, call>>

\* Offered as long as the form has no run of its own, busy or not.
Resume ==
    /\ OnForm /\ form.resumable # None /\ form.run = None
    /\ LET existing == form.resumable
       IN form' = [form EXCEPT
            !.run = existing, !.sql = existing.sql, !.resumable = None,
            !.schema = IF SchemaOf(existing) # None THEN SchemaOf(existing) ELSE @,
            !.step = IF SchemaOf(existing) # None THEN 2 ELSE 1]
    /\ UNCHANGED <<runs, pin, page, call, asked>>

StartFresh ==
    /\ OnForm /\ form.resumable # None /\ form.run = None
    /\ form' = [form EXCEPT !.resumable = None]
    /\ UNCHANGED <<runs, pin, page, call, asked>>

Edit(text) ==
    /\ OnForm /\ form.step = 0
    /\ form' = [form EXCEPT !.sql = text]
    /\ UNCHANGED <<runs, pin, page, call, asked>>

\* "fields" stands for both tabs that name a database of the user's.
ChooseTab(tab) ==
    /\ OnForm /\ form.step = 1
    /\ form' = [form EXCEPT !.tab = tab]
    /\ UNCHANGED <<runs, pin, page, call, asked>>

ChooseTable ==
    /\ OnForm /\ form.step = 2 /\ form.schema # None
    /\ form' = [form EXCEPT !.table = TRUE]
    /\ UNCHANGED <<runs, pin, page, call, asked>>

Continue ==
    /\ OnForm /\ form.step < 4 /\ ~NextDisabled /\ form.busy = None
    /\ form' = [form EXCEPT !.step = @ + 1]
    /\ UNCHANGED <<runs, pin, page, call, asked>>

\* The Back button and the row of steps work at any time.
GoBack(step) ==
    /\ OnForm /\ step < form.step
    /\ form' = [form EXCEPT !.step = step]
    /\ UNCHANGED <<runs, pin, page, call, asked>>

-----------------------------------------------------------------------------
(* Requests.  One is sent, the server serves it, the answer is applied; the  *)
(* server may refuse, and an answer may be lost after the server acted.      *)

\* Connect with what the tab has; a run the form already has is kept.
Connect ==
    /\ OnForm /\ form.step = 1 /\ form.busy = None
    /\ form' = [form EXCEPT !.busy = "connect", !.error = FALSE]
    /\ call' = IF form.tab = "demo" THEN Sent("demo", None)
               ELSE IF form.run = None THEN Sent("create", form.sql)
               ELSE Sent("discover", form.run.id)
    /\ pin' = IF form.tab # "demo" /\ form.run # None THEN form.run.id ELSE pin
    /\ UNCHANGED <<runs, page, asked>>

\* Offered under an error, for a run that was pending when it was answered.
Discard ==
    /\ OnForm /\ form.error /\ form.run # None /\ form.run.status = "pending"
    /\ form.busy = None
    /\ form' = [form EXCEPT !.busy = "discard", !.error = FALSE]
    /\ call' = Sent("discard", form.run.id)
    /\ UNCHANGED <<runs, pin, page, asked>>

SubmitForAnalysis ==
    /\ OnForm /\ form.step = 4 /\ form.busy = None /\ form.run # None
    /\ form' = [form EXCEPT !.busy = "submit", !.error = FALSE]
    /\ call' = Sent("predict", form.run.id)
    /\ UNCHANGED <<runs, pin, page, asked>>

Serve(newRuns, id) ==
    /\ runs' = newRuns
    /\ \/ call' = [call EXCEPT !.at = "answered", !.id = id]
       \/ call' = [call EXCEPT !.at = "failed"]
    /\ UNCHANGED <<pin, page, form, asked>>

ServeCreate ==
    /\ call.at = "sent" /\ call.op \in {"create", "demo"}
    /\ \E id \in NewIds :
          Serve(WithRow(id, IF call.op = "demo" THEN NewRun(DemoSql, "succeeded")
                            ELSE NewRun(call.id, None)), id)

\* A failed discovery is recorded on the run, and answered with an error.
ServeDiscover ==
    /\ call.at = "sent" /\ call.op = "discover" /\ Exists(call.id)
    /\ \/ Serve([runs EXCEPT ![call.id].discovery = "succeeded"], call.id)
       \/ /\ runs' = [runs EXCEPT ![call.id].discovery = "failed"]
          /\ call' = [call EXCEPT !.at = "failed"]
          /\ UNCHANGED <<pin, page, form, asked>>

ServeDiscard ==
    /\ call.at = "sent" /\ call.op = "discard" /\ Exists(call.id)
    /\ runs[call.id].status = "pending"
    /\ Serve([runs EXCEPT ![call.id].status = "deleted"], call.id)

Analysed(id) == [runs EXCEPT ![id].status = "awaiting_approval"]

ServePredict ==
    /\ call.at = "sent" /\ call.op = "predict" /\ Exists(call.id)
    /\ runs[call.id].status = "pending"
    /\ Serve(Analysed(call.id), call.id)

Refuse ==
    /\ call.at = "sent"
    /\ call' = [call EXCEPT !.at = "failed"]
    /\ UNCHANGED <<runs, pin, page, form, asked>>

CallFailed ==
    /\ call.at = "failed"
    /\ SetForm([form EXCEPT !.busy = None, !.error = TRUE])
    /\ call' = NoCall
    /\ UNCHANGED <<runs, pin, page, asked>>

\* createRun answered: the run is pinned, and discovery asked for.
Created ==
    /\ call.at = "answered" /\ call.op = "create"
    /\ SetForm([form EXCEPT !.run = Answer(call.id)])
    /\ pin' = call.id
    /\ call' = Sent("discover", call.id)
    /\ UNCHANGED <<runs, page, asked>>

\* The demo endpoint recorded its own statement: the draft becomes that one.
DemoAnswered ==
    /\ call.at = "answered" /\ call.op = "demo"
    /\ LET created == Answer(call.id)
       IN SetForm([form EXCEPT !.run = created, !.sql = created.sql,
                               !.schema = SchemaOf(created), !.step = 2, !.busy = None])
    /\ pin' = call.id
    /\ call' = NoCall
    /\ UNCHANGED <<runs, page, asked>>

Discovered ==
    /\ call.at = "answered" /\ call.op = "discover"
    /\ LET updated == Answer(call.id)
       IN SetForm([form EXCEPT !.run = updated, !.schema = SchemaOf(updated),
                               !.step = 2, !.busy = None])
    /\ call' = NoCall
    /\ UNCHANGED <<runs, pin, page, asked>>

\* Mutant: the pin is left on the run that is gone.
DiscardedPinned ==
    /\ call.at = "answered" /\ call.op = "discard"
    /\ SetForm([form EXCEPT !.run = None, !.schema = None, !.table = FALSE,
                            !.step = 0, !.busy = None])
    /\ call' = NoCall
    /\ UNCHANGED <<runs, pin, page, asked>>

Discarded ==
    /\ call.at = "answered" /\ call.op = "discard"
    /\ SetForm([form EXCEPT !.run = None, !.schema = None, !.table = FALSE,
                            !.step = 0, !.busy = None])
    /\ pin' = None
    /\ call' = NoCall
    /\ UNCHANGED <<runs, page, asked>>

\* The router is pushed to the workspace, wherever the user is by then.
Predicted ==
    /\ call.at = "answered" /\ call.op = "predict"
    /\ pin' = call.id
    /\ page' = "left"
    /\ form' = NewForm
    /\ call' = NoCall
    /\ UNCHANGED <<runs, asked>>

\* A link opens the workspace; what is under way goes on without the form.
LeaveForm ==
    /\ OnForm /\ form.run # None
    /\ page' = "left"
    /\ form' = NewForm
    /\ UNCHANGED <<runs, pin, call, asked>>

-----------------------------------------------------------------------------
\* The form is opened with nothing pinned, or with a run left pending.
WizardInit ==
    /\ \/ runs = <<>> /\ pin = None
       \/ \E text \in Draft, d \in {None, "succeeded"} :
             /\ pin = CHOOSE id \in RunId : TRUE
             /\ runs = [id \in {pin} |-> NewRun(text, d)]
    /\ asked = pin
    /\ page = "wizard"
    /\ form = NewForm
    /\ call = NoCall

UserNext ==
    \/ Resume \/ StartFresh \/ ChooseTable \/ Continue
    \/ Connect \/ Discard \/ SubmitForAnalysis \/ LeaveForm
    \/ \E text \in Draft \cup {""} : Edit(text)
    \/ \E tab \in {"fields", "demo"} : ChooseTab(tab)
    \/ \E step \in 0..3 : GoBack(step)

AnswerNext ==
    \/ CheckResumable
    \/ ServeCreate \/ ServeDiscover \/ ServeDiscard \/ ServePredict \/ Refuse
    \/ CallFailed \/ Created \/ DemoAnswered \/ Discovered \/ Discarded \/ Predicted

WizardNext == UserNext \/ AnswerNext

-----------------------------------------------------------------------------
(* Properties. *)

\* While no request is under way the pin names no other run than the one the
\* form works on - after a discard it may name none, and resuming does not pin
\* again - and it never names a run the form has discarded: another page
\* opened now shows no other run (new/page.tsx 187-220, 296-332).
PinNamesThisRun ==
    OnForm /\ form.busy = None =>
        /\ form.run # None => pin \in {None, form.run.id}
        /\ form.run = None /\ pin # None => Exists(pin)
=============================================================================
