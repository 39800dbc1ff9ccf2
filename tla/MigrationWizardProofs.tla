------------------------ MODULE MigrationWizardProofs ------------------------
(***************************************************************************)
(* Proofs about the form of MigrationWizard, in the page of RunView, for   *)
(* any run ids and drafts, whatever the user does while a request is under *)
(* way.                                                                    *)
(*                                                                         *)
(* The key is what a request under way may rely on: the form goes on with  *)
(* the run it was sent for, because the only ways to another run - taking  *)
(* up a pending one, or making one - are open to a form that has none.     *)
(***************************************************************************)
EXTENDS RunView, TLAPS

\* The run that was pinned when the form was opened, if one was.
First == CHOOSE id \in RunId : TRUE

\* The fields of the form, of a row, of an answer and of a request.
RunText      == Draft \cup {DemoSql, ""}
RunStatus    == {"pending", "awaiting_approval", "deleted"}
Discovery    == {None, "succeeded", "failed"}
AnswerRecord == [id : RunId, sql : RunText, status : RunStatus, discovery : Discovery]

RunRow == [sql : RunText, status : RunStatus, discovery : Discovery, arn : {None},
           workflow : {"not_started"}, execution : {None, "running", "succeeded", "failed"},
           cluster : {None, "migrating", "holding", "destroyed"}]

Places == 0..4
FormRecord == [step : Places, tab : {"fields", "demo"}, sql : RunText,
               run : AnswerRecord \cup {None}, schema : RunId \cup {None}, table : BOOLEAN,
               busy : {None, "connect", "discard", "submit"},
               resumable : AnswerRecord \cup {None}, error : BOOLEAN]

CallRecord == [op : {None, "create", "demo", "discover", "discard", "predict"},
               at : {None, "sent", "answered", "failed"},
               id : RunId \cup RunText \cup {None}, answer : {None}]

Rows  == DOMAIN runs \subseteq RunId /\ runs \in [DOMAIN runs -> RunRow]
Typed == Rows /\ form \in FormRecord /\ call \in CallRecord

\* What is offered to be taken up is the run that was pinned at first.
Offered ==
    /\ asked \in {None, First}
    /\ form.resumable # None => form.resumable.id = First

\* The pin is the form's run, or else the one that was pinned at first.
Pinned ==
    /\ form.run # None => pin \in {None, form.run.id}
    /\ form.run = None /\ pin # None => pin = First /\ Exists(pin)

\* A request about a run is about the form's run.
OfThisRun == form.run # None /\ form.run.id = call.id
Awaited ==
    /\ call.at \in {"sent", "answered"} /\ call.op \in {"discover", "discard", "predict"} =>
         OfThisRun
    /\ call.at = "sent" /\ call.op = "create" => call.id \in RunText
    /\ call.at = "answered" => call.id \in DOMAIN runs

FormInv == Typed /\ Offered /\ Pinned /\ Awaited

\* All of this while the form is open; it is not opened again.
Inv == OnForm => FormInv

-----------------------------------------------------------------------------
(* Helpers. *)

LEMMA StepNumbers ==
    /\ {0, 1, 2} \subseteq Places
    /\ \A n \in 0..3 : n \in Places
    /\ \A n \in Places : n < 4 => n + 1 \in Places
  BY DEF Places

LEMMA FirstIsRun == First \in RunId /\ First # None
<1>1. First \in RunId
  BY WizardAssumption DEF First
<1>2. QED
  BY <1>1, WizardAssumption

LEMMA AnswerIsThere ==
    ASSUME NEW x \in AnswerRecord
    PROVE  x # None
  BY NoneAssumption DEF AnswerRecord, RunText, RunStatus, Discovery

\* What an answer carries is of the run it is about.
LEMMA AnswerTyped ==
    ASSUME Rows, NEW id \in DOMAIN runs
    PROVE  /\ Answer(id) \in AnswerRecord /\ Answer(id).id = id /\ Answer(id) # None
           /\ SchemaOf(Answer(id)) \in RunId \cup {None}
           /\ Answer(id).sql \in RunText
<1>1. Answer(id) \in AnswerRecord /\ Answer(id).id = id
  <2>1. id \in RunId /\ runs[id] \in RunRow
    BY DEF Rows
  <2>2. QED
    BY <2>1 DEF Answer, AnswerRecord, RunRow
<1>2. Answer(id) # None
  BY <1>1, AnswerIsThere
<1>3. SchemaOf(Answer(id)) \in RunId \cup {None} /\ Answer(id).sql \in RunText
  BY <1>1 DEF SchemaOf, AnswerRecord
<1>4. QED
  BY <1>1, <1>2, <1>3

LEMMA NothingAwaited ==
    /\ NoCall \in CallRecord /\ NoCall.at \notin {"sent", "answered"}
    /\ NewForm \in FormRecord /\ NewForm.run = None /\ NewForm.resumable = None
<1>1. NoCall \in CallRecord /\ NoCall.at \notin {"sent", "answered"}
  BY NoneAssumption DEF NoCall, CallRecord
<1>2. NewForm \in FormRecord /\ NewForm.run = None /\ NewForm.resumable = None
  BY StepNumbers DEF NewForm, FormRecord, RunText
<1>3. QED
  BY <1>1, <1>2

-----------------------------------------------------------------------------
(* The form is opened. *)

LEMMA InitInv == Init => Inv
<1> SUFFICES ASSUME Init, OnForm PROVE FormInv
  BY DEF Inv
<1>1. WizardInit
  BY DEF Init, OnForm
<1>2. form = NewForm /\ call = NoCall /\ asked = pin
  BY <1>1 DEF WizardInit
<1>3. /\ pin \in {None, First}
      /\ Rows
      /\ pin # None => Exists(pin)
  <2>1. CASE runs = <<>> /\ pin = None
    BY <2>1 DEF Rows
  <2>2. ASSUME NEW text \in Draft, NEW d \in {None, "succeeded"},
               pin = First, runs = [id \in {pin} |-> NewRun(text, d)]
        PROVE  /\ pin \in {None, First}
               /\ Rows
               /\ pin # None => Exists(pin)
    <3>1. NewRun(text, d) \in RunRow /\ NewRun(text, d).status # "deleted"
      BY DEF NewRun, RunRow, RunText, RunStatus, Discovery
    <3>2. runs = [x \in {First} |-> NewRun(text, d)]
      BY <2>2
    <3> HIDE DEF First, NewRun
    <3>3. QED
      BY <2>2, <3>1, <3>2, FirstIsRun DEF Rows, Exists
  <2>3. QED
    BY <1>1, <2>1, <2>2 DEF WizardInit, First
<1>4. QED
  BY <1>2, <1>3, NothingAwaited DEF FormInv, Typed, Offered, Pinned, Awaited

-----------------------------------------------------------------------------
(* The user.                                                                *)

\* A step of the user that keeps the form's run, and sends nothing.
LEMMA FormStep ==
    ASSUME FormInv, UNCHANGED <<runs, pin, page, call, asked>>,
           form' \in FormRecord, form'.run = form.run, form'.resumable \in {form.resumable, None}
    PROVE  FormInv'
  BY DEF FormInv, Typed, Rows, Offered, Pinned, Exists, Awaited, OfThisRun

LEMMA Stepped ==
    ASSUME form \in FormRecord, NEW n \in Places
    PROVE  /\ [form EXCEPT !.step = n] \in FormRecord
           /\ [form EXCEPT !.step = n].run = form.run
           /\ [form EXCEPT !.step = n].resumable = form.resumable
  BY DEF FormRecord

LEMMA StepEdits ==
    ASSUME FormInv,
           \/ StartFresh \/ ChooseTable \/ Continue
           \/ \E text \in Draft \cup {""} : Edit(text)
           \/ \E tab \in {"fields", "demo"} : ChooseTab(tab)
           \/ \E step \in 0..3 : GoBack(step)
    PROVE  FormInv'
<1>0. form \in FormRecord
  BY DEF FormInv, Typed
<1>1. CASE StartFresh
  BY <1>0, <1>1, FormStep DEF StartFresh, FormRecord
<1>2. CASE ChooseTable
  BY <1>0, <1>2, FormStep DEF ChooseTable, FormRecord
<1>3. CASE Continue
  <2>1. form.step + 1 \in Places
    <3>1. form.step \in Places
      BY <1>0 DEF FormRecord
    <3>2. form.step < 4
      BY <1>3 DEF Continue
    <3>3. QED
      BY <3>1, <3>2, StepNumbers
  <2>2. form' = [form EXCEPT !.step = form.step + 1]
    BY <1>0, <1>3 DEF Continue, FormRecord
  <2>3. QED
    BY <1>0, <1>3, <2>1, <2>2, Stepped, FormStep DEF Continue
<1>4. ASSUME NEW text \in Draft \cup {""}, Edit(text)
      PROVE  FormInv'
  BY <1>0, <1>4, FormStep DEF Edit, FormRecord, RunText
<1>5. ASSUME NEW tab \in {"fields", "demo"}, ChooseTab(tab)
      PROVE  FormInv'
  BY <1>0, <1>5, FormStep DEF ChooseTab, FormRecord
<1>6. ASSUME NEW step \in 0..3, GoBack(step)
      PROVE  FormInv'
  <2>1. step \in Places
    BY StepNumbers
  <2>2. form' = [form EXCEPT !.step = step]
    BY <1>6 DEF GoBack
  <2>3. QED
    BY <1>0, <1>6, <2>1, <2>2, Stepped, FormStep DEF GoBack
<1>7. QED
  BY <1>1, <1>2, <1>3, <1>4, <1>5, <1>6

\* The pending run that is taken up is the pinned one, and nothing that is
\* under way is about another run.
LEMMA StepResume ==
    ASSUME FormInv, Resume
    PROVE  FormInv'
<1> DEFINE existing == form.resumable
           schema == IF SchemaOf(existing) # None THEN SchemaOf(existing) ELSE form.schema
           step == IF SchemaOf(existing) # None THEN 2 ELSE 1
<1>0. form \in FormRecord /\ Rows /\ call \in CallRecord
  BY DEF FormInv, Typed
<1>1. existing \in AnswerRecord /\ existing.id = First /\ form.run = None
  BY <1>0 DEF Resume, FormInv, Offered, FormRecord
<1>2. schema \in RunId \cup {None} /\ step \in Places /\ existing.sql \in RunText
  BY <1>0, <1>1, StepNumbers DEF SchemaOf, AnswerRecord, FormRecord
<1>3. form' = [form EXCEPT !.run = existing, !.sql = existing.sql, !.resumable = None,
                           !.schema = schema, !.step = step]
  BY <1>0 DEF Resume, FormRecord
<1>4. UNCHANGED <<runs, pin, page, call, asked>>
  BY DEF Resume
<1> HIDE DEF existing, schema, step
<1>5. form' \in FormRecord /\ form'.run = existing /\ form'.resumable = None
  BY <1>0, <1>1, <1>2, <1>3 DEF FormRecord
<1>6. pin \in {None, First}
  BY <1>1 DEF FormInv, Pinned
<1>7. ~(call.at \in {"sent", "answered"} /\ call.op \in {"discover", "discard", "predict"})
  BY <1>1 DEF FormInv, Awaited, OfThisRun
<1>8. existing # None
  BY <1>1, AnswerIsThere
<1>9. QED
  BY <1>0, <1>1, <1>4, <1>5, <1>6, <1>7, <1>8
     DEF FormInv, Typed, Rows, Offered, Pinned, Awaited

\* A request about a run is sent for the form's run.
LEMMA StepSend ==
    ASSUME FormInv, Connect \/ Discard \/ SubmitForAnalysis
    PROVE  FormInv'
<1>0. form \in FormRecord /\ Rows /\ call \in CallRecord
  BY DEF FormInv, Typed
<1>1. form' \in FormRecord /\ form'.run = form.run /\ form'.resumable = form.resumable
  BY <1>0 DEF Connect, Discard, SubmitForAnalysis, FormRecord
<1>2. UNCHANGED <<runs, page, asked>>
  BY DEF Connect, Discard, SubmitForAnalysis
<1>3. form.run # None => form.run.id \in RunId
  BY <1>0 DEF FormRecord, AnswerRecord
<1>4. /\ call' \in CallRecord /\ call'.at = "sent"
      /\ call'.op \in {"discover", "discard", "predict"} =>
           form.run # None /\ call'.id = form.run.id
      /\ call'.op = "create" => call'.id \in RunText
  <2>1. form.sql \in RunText
    BY <1>0 DEF FormRecord
  <2>2. \/ call' = Sent("demo", None)
        \/ call' = Sent("create", form.sql)
        \/ /\ form.run # None
           /\ \E op \in {"discover", "discard", "predict"} : call' = Sent(op, form.run.id)
    BY DEF Connect, Discard, SubmitForAnalysis
  <2>3. QED
    BY <1>3, <2>1, <2>2 DEF Sent, CallRecord
<1>5. \/ UNCHANGED pin
      \/ form.run # None /\ pin' = form.run.id
  BY DEF Connect, Discard, SubmitForAnalysis
<1>6. QED
  BY <1>0, <1>1, <1>2, <1>4, <1>5
     DEF FormInv, Typed, Rows, Offered, Pinned, Exists, Awaited, OfThisRun

-----------------------------------------------------------------------------
(* The server.                                                              *)

\* Whatever the server does, the pinned run of a form that has none is left.
LEMMA ServerStepKeeps ==
    ASSUME FormInv, UNCHANGED <<pin, page, form, asked>>, Rows', call' \in CallRecord,
           form.run = None /\ pin # None => Exists(pin)',
           \/ call'.at = "failed"
           \/ call'.at = "answered" /\ call'.id \in DOMAIN runs' /\ call'.op = call.op
              /\ (call.op \in {"discover", "discard", "predict"} => OfThisRun /\ call'.id = call.id)
    PROVE  FormInv'
  BY DEF FormInv, Typed, Offered, Pinned, Awaited, OfThisRun

LEMMA CallServed ==
    ASSUME call \in CallRecord, NEW id \in RunId
    PROVE  /\ [call EXCEPT !.at = "answered", !.id = id] \in CallRecord
           /\ [call EXCEPT !.at = "answered", !.id = id].at = "answered"
           /\ [call EXCEPT !.at = "answered", !.id = id].id = id
           /\ [call EXCEPT !.at = "answered", !.id = id].op = call.op
           /\ [call EXCEPT !.at = "failed"] \in CallRecord
           /\ [call EXCEPT !.at = "failed"].at = "failed"
  BY DEF CallRecord

\* A row that is changed in place leaves all others as they are.
LEMMA RowDiscovered ==
    ASSUME Rows, NEW id \in DOMAIN runs, NEW d \in Discovery
    PROVE  /\ [runs EXCEPT ![id].discovery = d] \in [DOMAIN runs -> RunRow]
           /\ \A r \in DOMAIN runs :
                [runs EXCEPT ![id].discovery = d][r].status = runs[r].status
<1>1. runs \in [DOMAIN runs -> RunRow] /\ runs[id] \in RunRow
  BY DEF Rows
<1>2. [runs[id] EXCEPT !.discovery = d] \in RunRow
      /\ [runs[id] EXCEPT !.discovery = d].status = runs[id].status
  BY <1>1 DEF RunRow
<1>3. QED
  BY <1>1, <1>2

LEMMA RowMoved ==
    ASSUME Rows, NEW id \in DOMAIN runs, NEW s \in RunStatus
    PROVE  [runs EXCEPT ![id].status = s] \in [DOMAIN runs -> RunRow]
<1>1. runs \in [DOMAIN runs -> RunRow] /\ runs[id] \in RunRow
  BY DEF Rows
<1>2. [runs[id] EXCEPT !.status = s] \in RunRow
  BY <1>1 DEF RunRow
<1>3. QED
  BY <1>1, <1>2

\* A new row leaves the others as they are.
LEMMA RowAdded ==
    ASSUME Rows, NEW id \in RunId, NEW row \in RunRow
    PROVE  /\ DOMAIN WithRow(id, row) = DOMAIN runs \cup {id}
           /\ WithRow(id, row) \in [DOMAIN runs \cup {id} -> RunRow]
           /\ \A r \in DOMAIN runs : r # id => WithRow(id, row)[r] = runs[r]
  BY DEF Rows, WithRow

LEMMA StepServed ==
    ASSUME FormInv, ServeCreate \/ ServeDiscover \/ ServeDiscard \/ ServePredict \/ Refuse
    PROVE  FormInv'
<1>0. Rows /\ call \in CallRecord /\ call.at = "sent"
  BY DEF FormInv, Typed, ServeCreate, ServeDiscover, ServeDiscard, ServePredict, Refuse
<1>1. UNCHANGED <<pin, page, form, asked>>
  BY DEF ServeCreate, ServeDiscover, ServeDiscard, ServePredict, Refuse, Serve
<1>2. call.op \in {"discover", "discard", "predict"} => OfThisRun
  BY <1>0 DEF FormInv, Awaited
<1>3. [call EXCEPT !.at = "failed"] \in CallRecord /\ [call EXCEPT !.at = "failed"].at = "failed"
  BY <1>0 DEF CallRecord
<1>4. ASSUME NEW id \in RunId
      PROVE  /\ [call EXCEPT !.at = "answered", !.id = id] \in CallRecord
             /\ [call EXCEPT !.at = "answered", !.id = id].at = "answered"
             /\ [call EXCEPT !.at = "answered", !.id = id].id = id
             /\ [call EXCEPT !.at = "answered", !.id = id].op = call.op
  BY <1>0, CallServed
<1>5. form.run = None /\ pin # None => Exists(pin)
  BY DEF FormInv, Pinned
<1>6. CASE ServeCreate
  <2> DEFINE row == IF call.op = "demo" THEN NewRun(DemoSql, "succeeded") ELSE NewRun(call.id, None)
  <2>1. call.op \in {"create", "demo"}
    BY <1>6 DEF ServeCreate
  <2>2. PICK id \in NewIds : Serve(WithRow(id, row), id)
    BY <1>6 DEF ServeCreate
  <2>3. id \in RunId /\ id \notin DOMAIN runs
    BY <1>0 DEF NewIds, Rows
  <2>4. row \in RunRow
    <3>1. call.op = "create" => call.id \in RunText
      BY <1>0 DEF FormInv, Awaited
    <3>2. DemoSql \in RunText
      BY DEF RunText
    <3>3. QED
      BY <2>1, <3>1, <3>2 DEF NewRun, RunRow, RunStatus, Discovery
  <2> HIDE DEF row
  <2>5. DOMAIN runs' = DOMAIN runs \cup {id} /\ Rows'
        /\ \A r \in DOMAIN runs : runs'[r] = runs[r]
    <3>1. runs' = WithRow(id, row)
      BY <2>2 DEF Serve
    <3>2. QED
      BY <1>0, <2>3, <2>4, <3>1, RowAdded DEF Rows
  <2>6. form.run = None /\ pin # None => Exists(pin)'
    BY <1>1, <1>5, <2>5 DEF Exists
  <2>7. \/ call' = [call EXCEPT !.at = "answered", !.id = id]
        \/ call' = [call EXCEPT !.at = "failed"]
    BY <2>2 DEF Serve
  <2>8. CASE call' = [call EXCEPT !.at = "failed"]
    BY <1>1, <1>3, <2>5, <2>6, <2>8, ServerStepKeeps
  <2>9. CASE call' = [call EXCEPT !.at = "answered", !.id = id]
    <3>1. /\ call' \in CallRecord /\ call'.at = "answered"
          /\ call'.id = id /\ call'.op = call.op
      BY <1>4, <2>3, <2>9
    <3>2. QED
      BY <1>1, <2>1, <2>5, <2>6, <3>1, ServerStepKeeps
  <2>10. QED
    BY <2>7, <2>8, <2>9
<1>7. CASE ServeDiscover
  <2>1. call.id \in DOMAIN runs /\ call.id \in RunId /\ call.op = "discover"
    BY <1>0, <1>7 DEF ServeDiscover, Exists, Rows
  <2>2. PICK d \in Discovery : runs' = [runs EXCEPT ![call.id].discovery = d]
    BY <1>7 DEF ServeDiscover, Serve, Discovery
  <2>3. DOMAIN runs' = DOMAIN runs /\ Rows'
    <3>1. DOMAIN runs' = DOMAIN runs
      BY <2>2
    <3>2. runs' \in [DOMAIN runs -> RunRow]
      BY <1>0, <2>1, <2>2, RowDiscovered
    <3>3. QED
      BY <1>0, <3>1, <3>2 DEF Rows
  <2>4. form.run = None /\ pin # None => Exists(pin)'
    BY <1>0, <1>1, <1>5, <2>1, <2>2, <2>3, RowDiscovered DEF Exists
  <2>5. \/ call' = [call EXCEPT !.at = "answered", !.id = call.id]
        \/ call' = [call EXCEPT !.at = "failed"]
    BY <1>7 DEF ServeDiscover, Serve
  <2>6. QED
    <3>1. CASE call' = [call EXCEPT !.at = "failed"]
      BY <1>1, <1>3, <2>3, <2>4, <3>1, ServerStepKeeps
    <3>2. CASE call' = [call EXCEPT !.at = "answered", !.id = call.id]
      <4>1. /\ call' \in CallRecord /\ call'.at = "answered"
            /\ call'.id = call.id /\ call'.op = call.op
        BY <1>4, <2>1, <3>2
      <4>2. QED
        BY <1>1, <1>2, <2>1, <2>3, <2>4, <4>1, ServerStepKeeps
    <3>3. QED
      BY <2>5, <3>1, <3>2
<1>8. CASE ServeDiscard \/ ServePredict
  <2>1. call.id \in DOMAIN runs /\ call.id \in RunId /\ call.op \in {"discard", "predict"}
    BY <1>0, <1>8 DEF ServeDiscard, ServePredict, Exists, Rows
  <2>2. PICK s \in RunStatus : runs' = [runs EXCEPT ![call.id].status = s]
    BY <1>8 DEF ServeDiscard, ServePredict, Serve, Analysed, RunStatus
  <2>3. DOMAIN runs' = DOMAIN runs /\ Rows'
    <3>1. DOMAIN runs' = DOMAIN runs
      BY <2>2
    <3>2. runs' \in [DOMAIN runs -> RunRow]
      BY <1>0, <2>1, <2>2, RowMoved
    <3>3. QED
      BY <1>0, <3>1, <3>2 DEF Rows
  <2>4. form.run # None
    BY <1>2, <2>1 DEF OfThisRun
  <2>5. \/ call' = [call EXCEPT !.at = "answered", !.id = call.id]
        \/ call' = [call EXCEPT !.at = "failed"]
    BY <1>8 DEF ServeDiscard, ServePredict, Serve
  <2>6. QED
    <3>1. CASE call' = [call EXCEPT !.at = "failed"]
      BY <1>1, <1>3, <2>3, <2>4, <3>1, ServerStepKeeps
    <3>2. CASE call' = [call EXCEPT !.at = "answered", !.id = call.id]
      <4>1. /\ call' \in CallRecord /\ call'.at = "answered"
            /\ call'.id = call.id /\ call'.op = call.op
        BY <1>4, <2>1, <3>2
      <4>2. QED
        BY <1>1, <1>2, <2>1, <2>3, <2>4, <4>1, ServerStepKeeps
    <3>3. QED
      BY <2>5, <3>1, <3>2
<1>9. CASE Refuse
  <2>1. call' = [call EXCEPT !.at = "failed"] /\ UNCHANGED runs
    BY <1>9 DEF Refuse
  <2>2. Rows' /\ (form.run = None /\ pin # None => Exists(pin)')
    BY <1>0, <1>1, <1>5, <2>1 DEF Rows, Exists
  <2>3. QED
    BY <1>1, <1>3, <2>1, <2>2, ServerStepKeeps
<1>10. QED
  BY <1>6, <1>7, <1>8, <1>9

-----------------------------------------------------------------------------
(* The answers.                                                             *)

LEMMA StepAsked ==
    ASSUME FormInv, CheckResumable, OnForm
    PROVE  FormInv'
<1>0. Rows /\ form \in FormRecord /\ asked = First
  BY DEF FormInv, Typed, Offered, CheckResumable
<1>1. UNCHANGED <<runs, pin, page, call>> /\ asked' = None
  BY DEF CheckResumable
<1>2. CASE UNCHANGED form
  BY <1>1, <1>2
     DEF FormInv, Typed, Rows, Offered, Pinned, Exists, Awaited, OfThisRun
<1>3. CASE Exists(First) /\ form' = [form EXCEPT !.resumable = Answer(First)]
  <2>1. Answer(First) \in AnswerRecord /\ Answer(First).id = First
    BY <1>0, <1>3, AnswerTyped DEF Exists
  <2>2. /\ form' \in FormRecord /\ form'.run = form.run
        /\ form'.resumable = Answer(First)
    BY <1>0, <1>3, <2>1 DEF FormRecord
  <2>3. QED
    BY <1>0, <1>1, <2>1, <2>2
       DEF FormInv, Typed, Rows, Offered, Pinned, Exists, Awaited, OfThisRun
<1>4. QED
  BY <1>0, <1>2, <1>3 DEF CheckResumable, SetForm

\* An answer that ends the request, or fails: the form's run is its own still.
LEMMA StepAnswered ==
    ASSUME FormInv, OnForm, CallFailed \/ Created \/ DemoAnswered \/ Discovered \/ Discarded
    PROVE  FormInv'
<1>0. Rows /\ form \in FormRecord /\ call \in CallRecord
  BY DEF FormInv, Typed
<1>1. UNCHANGED <<runs, page, asked>>
  BY DEF CallFailed, Created, DemoAnswered, Discovered, Discarded
<1>2. Rows' /\ \A id : Exists(id) => Exists(id)'
  BY <1>0, <1>1 DEF Rows, Exists
<1>3. CASE CallFailed
  <2>1. call' = NoCall /\ UNCHANGED pin
        /\ form' = [form EXCEPT !.busy = None, !.error = TRUE]
    BY <1>3 DEF CallFailed, SetForm
  <2>2. form' \in FormRecord /\ form'.run = form.run /\ form'.resumable = form.resumable
    BY <1>0, <2>1 DEF FormRecord
  <2>3. QED
    BY <1>0, <1>1, <1>2, <2>1, <2>2, NothingAwaited
       DEF FormInv, Typed, Offered, Pinned, Awaited
<1>4. CASE Discarded
  <2>1. call' = NoCall /\ pin' = None
        /\ form' = [form EXCEPT !.run = None, !.schema = None, !.table = FALSE,
                                !.step = 0, !.busy = None]
    BY <1>4 DEF Discarded, SetForm
  <2>2. form' \in FormRecord /\ form'.run = None /\ form'.resumable = form.resumable
    BY <1>0, <2>1, StepNumbers DEF FormRecord
  <2>3. QED
    BY <1>0, <1>1, <1>2, <2>1, <2>2, NothingAwaited
       DEF FormInv, Typed, Offered, Pinned, Awaited
<1>5. CASE Created \/ DemoAnswered \/ Discovered
  <2> DEFINE answer == Answer(call.id)
             schema == SchemaOf(answer)
             text   == answer.sql
  <2>1. call.id \in DOMAIN runs /\ call.id \in RunId
    BY <1>0, <1>5 DEF FormInv, Awaited, Rows, Created, DemoAnswered, Discovered
  <2>2. /\ answer \in AnswerRecord /\ answer.id = call.id /\ answer # None
        /\ schema \in RunId \cup {None} /\ text \in RunText
    BY <1>0, <2>1, AnswerTyped
  <2>3. \/ form' = [form EXCEPT !.run = answer]
        \/ form' = [form EXCEPT !.run = answer, !.sql = text, !.schema = schema,
                                !.step = 2, !.busy = None]
        \/ form' = [form EXCEPT !.run = answer, !.schema = schema, !.step = 2, !.busy = None]
    BY <1>5 DEF Created, DemoAnswered, Discovered, SetForm
  <2>4. pin' \in {None, call.id}
    BY <1>5 DEF FormInv, Awaited, Pinned, OfThisRun, Created, DemoAnswered, Discovered
  <2>5. call' = NoCall \/ call' = Sent("discover", call.id)
    BY <1>5 DEF Created, DemoAnswered, Discovered
  <2> HIDE DEF answer, schema, text
  <2>6. form' \in FormRecord /\ form'.run = answer /\ form'.resumable = form.resumable
    <3>1. CASE form' = [form EXCEPT !.run = answer]
      BY <1>0, <2>2, <3>1 DEF FormRecord
    <3>2. CASE form' = [form EXCEPT !.run = answer, !.sql = text, !.schema = schema,
                                    !.step = 2, !.busy = None]
      BY <1>0, <2>2, <3>2, StepNumbers DEF FormRecord
    <3>3. CASE form' = [form EXCEPT !.run = answer, !.schema = schema, !.step = 2, !.busy = None]
      BY <1>0, <2>2, <3>3, StepNumbers DEF FormRecord
    <3>4. QED
      BY <2>3, <3>1, <3>2, <3>3
  <2>7. /\ call' \in CallRecord /\ call'.at # "answered"
        /\ call'.at = "sent" => call'.op # "create" /\ call'.id = call.id
    <3>1. CASE call' = NoCall
      BY <3>1, NothingAwaited
    <3>2. CASE call' = Sent("discover", call.id)
      BY <2>1, <3>2 DEF Sent, CallRecord
    <3>3. QED
      BY <2>5, <3>1, <3>2
  <2>8. QED
    BY <1>1, <1>2, <2>2, <2>4, <2>6, <2>7
       DEF FormInv, Typed, Offered, Pinned, Awaited, OfThisRun
<1>6. QED
  BY <1>3, <1>4, <1>5

-----------------------------------------------------------------------------
(* Steps of the whole page.                                                 *)

\* The pages of a view are none of the form, and do not open it.
LEMMA ViewOffForm ==
    ASSUME ViewNext
    PROVE  page' # "wizard"
<1> USE DEF Pages, OnView, Idle
<1>1. CASE Mount
  BY <1>1 DEF Mount, wizardVars
<1>2. ASSUME NEW f \in flights, LoadRun(f) \/ ServeView(f) \/ FailView(f) \/ Apply(f)
      PROVE  page' # "wizard"
  <2>1. page \in Pages /\ UNCHANGED page
    BY <1>2 DEF LoadRun, ServeView, FailView, Apply, wizardVars
  <2>2. QED
    BY <2>1
<1>3. ASSUME NEW l \in Loops, Fire(l) \/ Visible(l) \/ Ceiling(l)
      PROVE  page' # "wizard"
  BY <1>3 DEF Fire, Visible, Ceiling, wizardVars
<1>4. CASE StreamFrame
  BY <1>4 DEF StreamFrame, wizardVars
<1>5. CASE ButtonNext
  BY <1>5 DEF ButtonNext, OpenShadowPage, PredictButton, ApproveButton, StartButton, AbortButton,
              DeleteButton, Press, wizardVars
<1>6. QED
  BY <1>1, <1>2, <1>3, <1>4, <1>5 DEF ViewNext

\* The verification on the server moves no run out of the form's sight.
LEMMA StepProgress ==
    ASSUME FormInv, NEW id \in DOMAIN runs, ServerStep(id)
    PROVE  FormInv'
<1>0. Rows /\ runs[id] \in RunRow
  BY DEF FormInv, Typed, Rows
<1>1. UNCHANGED <<pin, page, form, call, asked>>
  BY DEF ServerStep, Provision, Cleanup, EndExecution, Sweep, Progress
<1>2. \/ \E c \in {"migrating", "holding", "destroyed"} : runs' = [runs EXCEPT ![id].cluster = c]
      \/ \E e \in {"succeeded", "failed"} : runs' = [runs EXCEPT ![id].execution = e]
  BY DEF ServerStep, Provision, Cleanup, EndExecution, Sweep, Progress
<1>3. DOMAIN runs' = DOMAIN runs
  BY <1>2
<1>4. Rows' /\ \A r \in DOMAIN runs : runs'[r].status = runs[r].status
  <2>1. ASSUME NEW c \in {"migrating", "holding", "destroyed"},
               runs' = [runs EXCEPT ![id].cluster = c]
        PROVE  Rows' /\ \A r \in DOMAIN runs : runs'[r].status = runs[r].status
    <3>1. [runs[id] EXCEPT !.cluster = c] \in RunRow
          /\ [runs[id] EXCEPT !.cluster = c].status = runs[id].status
      BY <1>0 DEF RunRow
    <3>2. QED
      BY <1>0, <1>3, <2>1, <3>1 DEF Rows
  <2>2. ASSUME NEW e \in {"succeeded", "failed"}, runs' = [runs EXCEPT ![id].execution = e]
        PROVE  Rows' /\ \A r \in DOMAIN runs : runs'[r].status = runs[r].status
    <3>1. [runs[id] EXCEPT !.execution = e] \in RunRow
          /\ [runs[id] EXCEPT !.execution = e].status = runs[id].status
      BY <1>0 DEF RunRow
    <3>2. QED
      BY <1>0, <1>3, <2>2, <3>1 DEF Rows
  <2>3. QED
    BY <1>2, <2>1, <2>2
<1>5. QED
  BY <1>1, <1>3, <1>4 DEF FormInv, Typed, Offered, Pinned, Exists, Awaited, OfThisRun

LEMMA NextInv == Inv /\ [Next]_vars => Inv'
<1> SUFFICES ASSUME Inv, [Next]_vars, page' = "wizard"
             PROVE  FormInv'
  BY DEF Inv, OnForm
<1>1. ASSUME page = "wizard"
      PROVE  FormInv /\ OnForm
  BY <1>1 DEF Inv, OnForm
<1>2. CASE WizardNext
  <2>1. page = "wizard"
    BY <1>2 DEF WizardNext, UserNext, AnswerNext, Resume, StartFresh, ChooseTable, Continue,
        Connect, Discard, SubmitForAnalysis, LeaveForm, Edit, ChooseTab, GoBack, CheckResumable,
        ServeCreate, ServeDiscover, ServeDiscard, ServePredict, Serve, Refuse, CallFailed,
        Created, DemoAnswered, Discovered, Discarded, Predicted
  <2>2. ~LeaveForm /\ ~Predicted
    BY DEF LeaveForm, Predicted
  <2>3. QED
    BY <1>1, <1>2, <2>1, <2>2, StepEdits, StepResume, StepSend, StepServed, StepAsked,
       StepAnswered DEF WizardNext, UserNext, AnswerNext
<1>3. ASSUME NEW id \in DOMAIN runs, ServerStep(id)
      PROVE  FormInv'
  <2>1. UNCHANGED page
    BY <1>3 DEF ServerStep, Provision, Cleanup, EndExecution, Sweep, Progress
  <2>2. QED
    BY <1>1, <1>3, <2>1, StepProgress
<1>4. CASE UNCHANGED vars
  BY <1>1, <1>4 DEF vars, wizardVars, FormInv, Typed, Rows, Offered, Pinned, Exists, Awaited,
     OfThisRun
<1>5. QED
  BY <1>2, <1>3, <1>4, ViewOffForm DEF Next

\* Whatever the user does while the form waits, its run is the one pinned, and
\* what a request will be answered about.
THEOREM Invariant == Spec => []Inv
  BY InitInv, NextInv, PTL DEF Spec

\* While the form waits for nothing, the pin names its run, or none: another
\* page opened now shows no other run, and none that was discarded.
THEOREM PinKept == Spec => []PinNamesThisRun
<1>1. Inv => PinNamesThisRun
  BY DEF Inv, FormInv, Pinned, PinNamesThisRun
<1>2. QED
  BY <1>1, Invariant, PTL

-----------------------------------------------------------------------------
(* What a run is shown as, for any run the API may answer.                 *)

LEMMA StageInOrder ==
    ASSUME NEW run
    PROVE  ActiveStage(run) \in 1..6 /\ DOMAIN ProcessOrder = 1..6
  BY DEF ActiveStage, ProcessOrder

(* Of the stages a run is shown at, one is under way or has failed, the    *)
(* ones before it are complete and the ones after it pending; of a         *)
(* completed run all are complete.                                         *)
THEOREM OneStageShown ==
    ASSUME NEW run, NEW i \in DOMAIN ProcessOrder
    PROVE  /\ run.status = "completed" => ProcessStages(run)[i] = "complete"
           /\ run.status # "completed" =>
                 /\ ProcessStages(run)[i] = "complete" <=> i < ActiveStage(run)
                 /\ ProcessStages(run)[i] = "pending" <=> i > ActiveStage(run)
                 /\ ProcessStages(run)[i] \in {"current", "failed"} <=> i = ActiveStage(run)
                 /\ ProcessStages(run)[i] = "failed"
                      <=> i = ActiveStage(run) /\ run.status = "failed"
<1> DEFINE at == ActiveStage(run)
<1>1. at \in 1..6 /\ i \in 1..6
  BY StageInOrder
<1>2. ProcessStages(run)[i] =
        IF run.status = "completed" \/ i < at THEN "complete"
        ELSE IF i > at THEN "pending"
        ELSE IF run.status = "failed" THEN "failed" ELSE "current"
  BY DEF ProcessStages
<1> HIDE DEF at
<1> QED
  BY <1>1, <1>2 DEF at
=============================================================================
