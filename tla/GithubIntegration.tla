-------------------------- MODULE GithubIntegration -------------------------
(* What a pull request sets off: the webhook that creates a run and its    *)
(* link, predicts it and posts the prediction; and, once the run's shadow  *)
(* workflow has ended, the comment with what was measured, which the       *)
(* request that finds the end posts (github_webhook_service.py,            *)
(* github_notification_service.py).  With it the workspaces and            *)
(* connections it reads.                                                   *)
EXTENDS OAuthConnections

CONSTANTS
    Commit,         \* head commits of pull requests
    RepoOf(_),      \* the repository of a commit's pull request
    Run

VARIABLES
    run,            \* migration_runs: owner, status, workflow_status
    execution,      \* the Step Functions execution of each run
    link,           \* github_pull_request_links
    revived,        \* history: how often a run's copy of an ended workflow
                    \* was made "running" again
    posted          \* history: the terminal comments of syncs, by request and
                    \* by what revived was when it found the end

ghVars == <<run, execution, link, revived, posted>>

vars == <<req, wsVars, oauthVars, ghVars>>

RunRow ==
    [owner : User, status : {"pending", "failed", "awaiting_approval", "running", "completed"},
     workflow : {"none", "running", "ended"}]

LinkRow == [commit : Commit, checkRun : BOOLEAN, terminalPosted : BOOLEAN]

RunInit == {row \in RunRow : <<row.status, row.workflow>> \in
                {<<"awaiting_approval", "none">>, <<"running", "running">>}}

ASSUME GithubAssumption == None \notin RunRow /\ None \notin LinkRow

ReviveCap == 1      \* bound of this model on revived

-----------------------------------------------------------------------------
(* POST /webhooks/github, once the signature is right, answers 202 and     *)
(* hands over to a background task with a session of its own, which        *)
(* swallows every failure; GitHub does not repeat what was answered.       *)
ReceiveWebhook(q, c) ==
    /\ At(q, "idle")
    /\ Goto(q, [pc |-> "accepted", commit |-> c])
    /\ UNCHANGED <<wsVars, oauthVars, ghVars>>

Linked(c) == \E r \in Run : link[r] # None /\ link[r].commit = c

(* What GitHub's answers come to: the SQL of the first file that matches   *)
(* the workspace's glob, no such file, or one without SQL.                 *)
Reply == {"sql", "no_file", "no_sql"}

(* The delivery ends here if the commit has a link, no workspace has the   *)
(* repository, there is no SQL, or the workspace has no connection; the    *)
(* last two post an explanatory comment, and nothing is stored.            *)
Deliver(q) ==
    LET c == req[q].commit
        home == {w \in Workspace : Exists(w) /\ workspace[w].repo = RepoOf(c)}
    IN  /\ At(q, "accepted")
        /\ \E reply \in Reply :
             IF Linked(c) \/ reply # "sql" \/ ~\E w \in home : workspace[w].connected
               THEN /\ Finish(q)
                    /\ UNCHANGED run
               ELSE \E w \in home, r \in Run :
                      /\ run[r] = None
                      /\ run' = [run EXCEPT ![r] = [owner |-> workspace[w].owner,
                                    status |-> "pending", workflow |-> "none"]]
                      /\ Goto(q, [pc |-> "link", run |-> r, commit |-> c])
        /\ UNCHANGED <<wsVars, oauthVars, execution, link, revived, posted>>

(* GitHub refuses a call: the webhook's task, or the hook, ends there.     *)
GithubFails(q) ==
    /\ req[q].pc \in {"accepted", "ready", "ready_ids", "post", "record"}
    /\ Finish(q)
    /\ UNCHANGED <<wsVars, oauthVars, ghVars>>

NewLink(c) == [commit |-> c, checkRun |-> FALSE, terminalPosted |-> FALSE]

(* Mutant: the link waits until the prediction is done.                    *)
CommitLinkLate(q) ==
    /\ At(q, "link")
    /\ Goto(q, [req[q] EXCEPT !.pc = "discover"])
    /\ UNCHANGED <<wsVars, oauthVars, ghVars>>

(* The link, in a commit of its own, before the prediction.                *)
CommitLink(q) ==
    /\ At(q, "link")
    /\ link' = [link EXCEPT ![req[q].run] = NewLink(req[q].commit)]
    /\ Goto(q, [req[q] EXCEPT !.pc = "discover"])
    /\ UNCHANGED <<wsVars, oauthVars, run, execution, revived, posted>>

(* load_connection and discovery; a failure ends the task (Abandon).       *)
Discover(q) ==
    /\ At(q, "discover")
    /\ Goto(q, [req[q] EXCEPT !.pc = "predict"])
    /\ UNCHANGED <<wsVars, oauthVars, ghVars>>

Predict(q) ==
    LET r == req[q].run IN
    /\ At(q, "predict")
    /\ \/ /\ run' = [run EXCEPT ![r].status = "awaiting_approval"]
          /\ Send(run[r].owner, "ready")
          /\ Goto(q, [req[q] EXCEPT !.pc = "ready"])
       \/ /\ run' = [run EXCEPT ![r].status = "failed"]
          /\ Finish(q)
          /\ UNCHANGED notices
    /\ UNCHANGED <<wsVars, connection, execution, link, revived, posted>>

(* send_prediction_ready: the comment and the check run, then their ids;   *)
(* after a failure between them GitHub has what the row does not.          *)
PostReady(q) ==
    /\ At(q, "ready")
    /\ IF link[req[q].run] = None
         THEN Finish(q)
         ELSE Goto(q, [req[q] EXCEPT !.pc = "ready_ids"])
    /\ UNCHANGED <<wsVars, oauthVars, ghVars>>

SaveReady(q) ==
    /\ At(q, "ready_ids")
    /\ link' = [link EXCEPT ![req[q].run].checkRun = TRUE]
    /\ Finish(q)
    /\ UNCHANGED <<wsVars, oauthVars, run, execution, revived, posted>>

-----------------------------------------------------------------------------
(* The run's verification (RunLifecycle has it whole).  A workflow status  *)
(* on the row says that the run is linked to its execution.                *)

Copy(told) == IF told = "running" THEN "running" ELSE "ended"

(* The row's copy of the workflow's status becomes what AWS said, whatever *)
(* it has become since.                                                    *)
Record(r, told, status) ==
    /\ run' = [run EXCEPT ![r].workflow = Copy(told), ![r].status = status]
    /\ IF run[r].workflow = "ended" /\ told = "running"
         THEN revived[r] < ReviveCap /\ revived' = [revived EXCEPT ![r] = @ + 1]
         ELSE UNCHANGED revived

(* start_for_run: the guards, StartExecution and the commit, each by       *)
(* itself.  An execution that exists already is described instead, and     *)
(* taken for running where that fails.                                     *)
StartChecked(q, r) ==
    /\ At(q, "idle")
    /\ run[r] # None /\ run[r].status = "awaiting_approval" /\ run[r].workflow = "none"
    /\ Goto(q, [pc |-> "launch", run |-> r])
    /\ UNCHANGED <<wsVars, oauthVars, ghVars>>

StartExecution(q) ==
    LET r == req[q].run IN
    /\ At(q, "launch")
    /\ execution' = [execution EXCEPT ![r] = IF @ = "none" THEN "running" ELSE @]
    /\ \E told \in {execution'[r], "running"} :
          Goto(q, [pc |-> "started", run |-> r, told |-> told])
    /\ UNCHANGED <<wsVars, oauthVars, run, link, revived, posted>>

StartRecord(q) ==
    LET r == req[q].run IN
    /\ At(q, "started")
    /\ Record(r, req[q].told,
              IF run[r].status \in {"pending", "awaiting_approval"} THEN "running" ELSE run[r].status)
    /\ Send(run[r].owner, "started")
    /\ Finish(q)
    /\ UNCHANGED <<wsVars, connection, execution, link, posted>>

ExecutionEnds(r) ==
    /\ execution[r] = "running"
    /\ \E e \in {"succeeded", "failed"} : execution' = [execution EXCEPT ![r] = e]
    /\ UNCHANGED <<req, wsVars, oauthVars, run, link, revived, posted>>

Settle(r, e) ==
    CASE e = "succeeded" /\ run[r].status = "running" -> "completed"
      [] e = "failed" /\ run[r].status # "completed" -> "failed"
      [] OTHER -> run[r].status

(* The Slack notice, then the comment.                                     *)
Notify(q, r, by) ==
    /\ Send(run[r].owner, "ended")
    /\ Goto(q, [pc |-> "terminal", run |-> r, by |-> by, found |-> revived[r]])

(* sync_status: DescribeExecution, then the commit.                        *)
SyncDescribe(q, r) ==
    /\ At(q, "idle") /\ run[r] # None /\ run[r].workflow # "none"
    /\ Goto(q, [pc |-> "sync", run |-> r, told |-> execution[r]])
    /\ UNCHANGED <<wsVars, oauthVars, ghVars>>

(* Mutant: whoever is told of the end reports it.                          *)
SyncCommitTold(q) ==
    LET r == req[q].run
        told == req[q].told
    IN  /\ At(q, "sync")
        /\ Record(r, told, Settle(r, told))
        /\ IF told # "running" THEN Notify(q, r, "sync") ELSE Finish(q) /\ UNCHANGED notices
        /\ UNCHANGED <<wsVars, connection, execution, link, posted>>

(* The transaction that makes the copy terminal decides who reports it.    *)
SyncCommit(q) ==
    LET r == req[q].run
        told == req[q].told
    IN  /\ At(q, "sync")
        /\ Record(r, told, Settle(r, told))
        /\ IF told # "running" /\ run[r].workflow # "ended"
             THEN Notify(q, r, "sync")
             ELSE Finish(q) /\ UNCHANGED notices
        /\ UNCHANGED <<wsVars, connection, execution, link, posted>>

(* abort_for_run: StopExecution, then a commit that does not ask who came  *)
(* first.                                                                  *)
AbortStop(q, r) ==
    /\ At(q, "idle") /\ run[r] # None /\ run[r].workflow = "running"
    /\ execution' = [execution EXCEPT ![r] = IF @ = "running" THEN "failed" ELSE @]
    /\ Goto(q, [pc |-> "abort", run |-> r])
    /\ UNCHANGED <<wsVars, oauthVars, run, link, revived, posted>>

AbortCommit(q) ==
    LET r == req[q].run
        s == IF run[r].status = "running" THEN "failed" ELSE run[r].status
    IN  /\ At(q, "abort")
        /\ run' = [run EXCEPT ![r].workflow = "ended", ![r].status = s]
        /\ IF s = "failed" THEN Notify(q, r, "abort") ELSE Finish(q) /\ UNCHANGED notices
        /\ UNCHANGED <<wsVars, connection, execution, link, revived, posted>>

(* send_terminal_result: the link is read, and the comment posted unless   *)
(* one is on record; then the check run is updated and the record made.    *)
ReadTerminal(q) ==
    LET l == link[req[q].run] IN
    /\ At(q, "terminal")
    /\ IF l = None \/ l.terminalPosted
         THEN Finish(q)
         ELSE Goto(q, [req[q] EXCEPT !.pc = "post"])
    /\ UNCHANGED <<wsVars, oauthVars, ghVars>>

PostTerminal(q) ==
    LET r == req[q].run IN
    /\ At(q, "post")
    /\ posted' = IF req[q].by = "sync"
                   THEN [posted EXCEPT ![r] = @ \cup {<<q, req[q].found>>}]
                   ELSE posted
    /\ Goto(q, [req[q] EXCEPT !.pc = "record"])
    /\ UNCHANGED <<wsVars, oauthVars, run, execution, link, revived>>

RecordTerminal(q) ==
    /\ At(q, "record")
    /\ link' = [link EXCEPT ![req[q].run].terminalPosted = TRUE]
    /\ Finish(q)
    /\ UNCHANGED <<wsVars, oauthVars, run, execution, revived, posted>>

-----------------------------------------------------------------------------
Init ==
    /\ WorkspaceInit /\ OAuthInit
    /\ req = [q \in Request |-> Idle]
    /\ run \in [Run -> RunInit \cup {None}]
    /\ execution = [r \in Run |->
                     IF run[r] # None /\ run[r].workflow = "running" THEN "running" ELSE "none"]
    /\ link \in [Run -> {NewLink(c) : c \in Commit} \cup {None}]
    /\ \A r, s \in Run : link[r] # None => run[r] # None /\ (link[s] = link[r] => s = r)
    /\ revived = [r \in Run |-> 0]
    /\ posted = [r \in Run |-> {}]

GithubRequest(q) ==
    \/ \E c \in Commit : ReceiveWebhook(q, c)
    \/ Deliver(q) \/ GithubFails(q)
    \/ CommitLink(q) \/ Discover(q) \/ Predict(q) \/ PostReady(q) \/ SaveReady(q)
    \/ \E r \in Run : StartChecked(q, r) \/ SyncDescribe(q, r) \/ AbortStop(q, r)
    \/ StartExecution(q) \/ StartRecord(q) \/ SyncCommit(q) \/ AbortCommit(q)
    \/ ReadTerminal(q) \/ PostTerminal(q) \/ RecordTerminal(q)

Next ==
    \/ \E q \in Request :
         \/ WorkspaceRequest(q) /\ UNCHANGED <<oauthVars, ghVars>>
         \/ OAuthRequest(q) /\ UNCHANGED ghVars
         \/ GithubRequest(q)
         \/ Abandon(q) /\ UNCHANGED <<oauthVars, ghVars>>
    \/ \E i \in Invite : Expire(i) /\ UNCHANGED <<oauthVars, ghVars>>
    \/ \E r \in Run : ExecutionEnds(r)

Spec == Init /\ [][Next]_vars

-----------------------------------------------------------------------------
(* Every row is well formed, and whatever order checks and commits come    *)
(* in, an owner has no two workspaces of one name, a repository no two     *)
(* workspaces, and every workspace its owner for a member                  *)
(* (workspace_service.py).                                                 *)
TypeOK ==
    /\ workspace \in [Workspace -> WorkspaceRow \cup {None, Gone}]
    /\ member \in [Workspace -> [User -> MemberRole]]
    /\ invite \in [Invite -> InviteRow \cup {None, Gone}]
    /\ connection \in [Provider -> [User -> Account \cup {None}]]
    /\ notices \subseteq {"ready", "started", "ended"} \X Account
    /\ run \in [Run -> RunRow \cup {None}]
    /\ execution \in [Run -> {"none", "running", "succeeded", "failed"}]
    /\ link \in [Run -> LinkRow \cup {None}]
    /\ revived \in [Run -> 0..ReviveCap]
    /\ posted \in [Run -> SUBSET (Request \X (0..ReviveCap))]
    /\ expelled \subseteq Workspace \X User
    /\ \A w \in Workspace : Exists(w) =>
         Insertable(workspace[w], w) /\ member[w][workspace[w].owner] = "owner"

(* Who an invite says has accepted it is a member, unless the owner has    *)
(* removed them since: the member is committed before the invite is marked *)
(* (workspace_invite_service.py, accept_invite), whatever fails between.   *)
AcceptedIsMember ==
    \A i \in Invite : Invited(i) /\ invite[i].status = "accepted" =>
        \/ member[invite[i].ws][invite[i].by] # "none"
        \/ <<invite[i].ws, invite[i].by>> \in expelled

(* A prediction that a webhook made finds its pull request: when its hook  *)
(* runs, the link is there (github_webhook_service.py: the link is         *)
(* committed before the prediction runs).                                  *)
ReadyFindsLink ==
    \A q \in Request : req[q].pc = "ready" => link[req[q].run] # None

(* However many syncs are told that a run has ended, one of them at most   *)
(* posts what was measured each time the row's copy of the workflow turns  *)
(* terminal (sync_status: just_became_terminal).  It turns terminal again  *)
(* only after a late start or a stale sync has made it "running" once      *)
(* more; a second comment then is possible, until one is on record.        *)
OnePostPerEnd ==
    \A r \in Run : \A a, b \in posted[r] : a[2] = b[2] => a = b
=============================================================================
