----------------------- MODULE GithubIntegrationProofs -----------------------
(***************************************************************************)
(* Proofs about GithubIntegration, for any requests, users, workspaces,    *)
(* invites, accounts, commits and runs.                                    *)
(*                                                                         *)
(* A request carries what it read into its next transaction.  The          *)
(* invariant says of each kind of request what of that still holds when    *)
(* the transaction comes; the workspaces, the connections and the runs     *)
(* share no variable but the requests, so each has its own part.           *)
(***************************************************************************)
EXTENDS GithubIntegration, TLAPS

Shape == req = [q \in Request |-> req[q]]

-----------------------------------------------------------------------------
(* Workspaces, members and invites.                                        *)

WsTypes ==
    /\ workspace \in [Workspace -> WorkspaceRow \cup {None, Gone}]
    /\ member \in [Workspace -> [User -> MemberRole]]
    /\ invite \in [Invite -> InviteRow \cup {None, Gone}]
    /\ expelled \subseteq Workspace \X User

Unique == \A w \in Workspace : Exists(w) => Insertable(workspace[w], w)

Headed == \A w \in Workspace : Exists(w) => member[w][workspace[w].owner] = "owner"

\* What a user who is let in keeps, whatever becomes of the invite.
Kept(i, u) ==
    Invited(i) =>
        member[invite[i].ws][u] # "none" \/ <<invite[i].ws, u>> \in expelled

Accepted ==
    \A i \in Invite : Invited(i) /\ invite[i].status = "accepted" =>
        invite[i].by \in User /\ Kept(i, invite[i].by)

WsPc == {"create", "mark"}

\* A request to commit a workspace, or to mark an invite whose member is in.
WsOf(q) ==
    /\ req[q].pc = "create" => req[q].ws \in Workspace /\ req[q].row \in WorkspaceRow
    /\ req[q].pc = "mark" =>
          /\ req[q].inv \in Invite /\ req[q].user \in User
          /\ invite[req[q].inv] # None
          /\ Kept(req[q].inv, req[q].user)

WsRequests == \A q \in Request : WsOf(q)

WsInv == WsTypes /\ Unique /\ Headed /\ Accepted /\ WsRequests

-----------------------------------------------------------------------------
(* Connections and notices.                                                *)

OaInv ==
    /\ connection \in [Provider -> [User -> Account \cup {None}]]
    /\ notices \subseteq {"ready", "started", "ended"} \X Account
    /\ \A q \in Request : req[q].pc = "exchange" =>
          req[q].provider \in Provider /\ req[q].user \in User /\ req[q].account \in Account

-----------------------------------------------------------------------------
(* Runs, executions, links and comments.                                   *)

GhTypes ==
    /\ run \in [Run -> RunRow \cup {None}]
    /\ execution \in [Run -> {"none", "running", "succeeded", "failed"}]
    /\ link \in [Run -> LinkRow \cup {None}]
    /\ revived \in [Run -> 0..ReviveCap]
    /\ posted \in [Run -> SUBSET (Request \X (0..ReviveCap))]

Making == {"link", "discover", "predict"}
Predicting == Making \cup {"ready", "ready_ids"}
Reporting == {"terminal", "post", "record"}
Linking == {"discover", "predict", "ready", "ready_ids", "post", "record"}
Running == {"launch", "started", "sync", "abort"}
GhPc == {"accepted"} \cup Predicting \cup Running \cup Reporting

\* What a delivery, and a request that reports the end of a run, carry.
Delivery == [pc : Predicting, run : Run, commit : Commit]
Report == [pc : Reporting, run : Run, by : {"sync", "abort"}, found : 0..ReviveCap]

OfRun(q) ==
    /\ req[q].pc \in GhPc \ {"accepted"} => req[q].run \in Run /\ run[req[q].run] # None
    /\ req[q].pc = "accepted" => req[q].commit \in Commit
    /\ req[q].pc \in Predicting => req[q] \in Delivery
    /\ req[q].pc \in Reporting => req[q] \in Report
    /\ req[q].pc \in {"started", "sync"} => req[q].told \in {"none", "running", "succeeded", "failed"}
    /\ req[q].pc \in Linking => link[req[q].run] # None

GhRequests == \A q \in Request : OfRun(q)

\* A sync has reported the end of the run r that it was the e-th to find, or
\* is to do so.
Reports(q, r, e) ==
    \/ <<q, e>> \in posted[r]
    \/ /\ req[q].pc \in {"terminal", "post"} /\ req[q].by = "sync"
       /\ req[q].run = r /\ req[q].found = e

\* The e-th end of the run r is found and written.
Closed(r, e) ==
    \/ e < revived[r]
    \/ e = revived[r] /\ run[r] # None /\ run[r].workflow = "ended"

\* Each end is found once, and then one sync at most is to post it.
OnePost ==
    \A r \in Run, e \in 0..ReviveCap, p \in Request :
        Reports(p, r, e) =>
            /\ Closed(r, e)
            /\ \A q \in Request : Reports(q, r, e) => q = p

GhInv == GhTypes /\ GhRequests /\ OnePost

Inv == Shape /\ WsInv /\ OaInv /\ GhInv

-----------------------------------------------------------------------------
(* Requests.                                                               *)

LEMMA Moves ==
    ASSUME Shape, NEW q \in Request, NEW x, Goto(q, x)
    PROVE  /\ Shape' /\ req'[q] = x
           /\ \A v \in Request \ {q} : req'[v] = req[v]
  BY DEF Shape, Goto

LEMMA Ends ==
    ASSUME Shape, NEW q \in Request, Finish(q)
    PROVE  /\ Shape' /\ req'[q] = Done /\ req'[q].pc = "done"
           /\ \A v \in Request \ {q} : req'[v] = req[v]
  BY DEF Shape, Finish, Done

(* A step that leaves a part's variables alone, and takes the request out  *)
(* of it or keeps it out, keeps that part.                                 *)
LEMMA WsOther ==
    ASSUME WsInv, NEW q \in Request, UNCHANGED wsVars, req'[q].pc \notin WsPc,
           \A v \in Request \ {q} : req'[v] = req[v]
    PROVE  WsInv'
<1>1. WsTypes' /\ Unique' /\ Headed' /\ Accepted'
  BY DEF WsInv, wsVars, WsTypes, Unique, Headed, Accepted, Kept, Exists, Invited, Insertable,
         NameFree, RepoAvailable, Owned
<1>2. WsRequests'
  BY DEF WsInv, wsVars, WsRequests, WsOf, WsPc, Kept, Invited
<1> QED BY <1>1, <1>2 DEF WsInv

LEMMA OaOther ==
    ASSUME OaInv, NEW q \in Request, UNCHANGED oauthVars, req'[q].pc # "exchange",
           \A v \in Request \ {q} : req'[v] = req[v]
    PROVE  OaInv'
  BY DEF OaInv, oauthVars

LEMMA GhOther ==
    ASSUME GhInv, NEW q \in Request, UNCHANGED ghVars, req'[q].pc \notin GhPc,
           \A v \in Request \ {q} : req'[v] = req[v]
    PROVE  GhInv'
<1>1. GhTypes'
  BY DEF GhInv, ghVars, GhTypes
<1>2. \A v \in Request \ {q} : OfRun(v)'
  BY DEF GhInv, ghVars, GhRequests, OfRun
<1>3. OfRun(q)'
  BY DEF OfRun, GhPc, Making, Predicting, Linking, Running, Reporting
<1>4. OnePost'
  <2>1. \A v \in Request, r \in Run, e \in 0..ReviveCap : Reports(v, r, e)' => Reports(v, r, e)
    BY DEF Reports, ghVars, GhPc, Reporting
  <2>2. \A r \in Run, e \in 0..ReviveCap : Closed(r, e) => Closed(r, e)'
    BY DEF Closed, ghVars
  <2> QED BY <2>1, <2>2 DEF GhInv, OnePost
<1> QED BY <1>1, <1>2, <1>3, <1>4 DEF GhInv, GhRequests

-----------------------------------------------------------------------------
(* Workspaces.                                                             *)

\* The indexes keep their word whatever was checked before: the row that is
\* written is free of conflicts when it is.
LEMMA UniqueWrite ==
    ASSUME WsTypes, Unique, NEW w \in Workspace, NEW row \in WorkspaceRow,
           Insertable(row, w), workspace' = [workspace EXCEPT ![w] = row]
    PROVE  /\ Unique'
           /\ workspace' \in [Workspace -> WorkspaceRow \cup {None, Gone}]
           /\ workspace'[w] = row
           /\ \A x \in Workspace \ {w} : workspace'[x] = workspace[x]
<1>1. /\ workspace' \in [Workspace -> WorkspaceRow \cup {None, Gone}]
      /\ workspace'[w] = row
      /\ \A x \in Workspace \ {w} : workspace'[x] = workspace[x]
  BY DEF WsTypes
<1>2. ASSUME NEW x \in Workspace, Exists(x)' PROVE Insertable(workspace[x], x)'
  <2>1. CASE x = w
    BY <1>1, <2>1 DEF Insertable, NameFree, RepoAvailable, Owned, Exists
  <2>2. CASE x # w
    <3>1. workspace'[x] = workspace[x] /\ Exists(x) /\ Insertable(workspace[x], x)
      BY <1>1, <1>2, <2>2 DEF Exists, Unique
    <3>2. NameFree(workspace[x].owner, workspace[x].name, x)'
      BY <1>1, <2>2, <3>1 DEF Insertable, NameFree, Owned, Exists
    <3>3. RepoAvailable(workspace[x].repo, x)'
      BY <1>1, <2>2, <3>1 DEF Insertable, RepoAvailable, Exists
    <3> QED BY <3>2, <3>3 DEF Insertable
  <2> QED BY <2>1, <2>2
<1> QED BY <1>1, <1>2 DEF Unique

\* What remains when the memberships that were promised are kept.
LEMMA OthersKeep ==
    ASSUME WsInv, NEW v \in Request, req'[v] = req[v],
           \A i \in Invite : invite[i] # None => invite'[i] # None,
           \A i \in Invite, u \in User : invite[i] # None /\ Kept(i, u) => Kept(i, u)'
    PROVE  WsOf(v)'
<1>1. WsOf(v)
  BY DEF WsInv, WsRequests
<1> QED BY <1>1 DEF WsOf

LEMMA WsKeeps ==
    ASSUME WsInv, NEW q \in Request, req'[q].pc \notin WsPc,
           \A v \in Request \ {q} : req'[v] = req[v],
           \A i \in Invite : invite[i] # None => invite'[i] # None,
           \A i \in Invite, u \in User : invite[i] # None /\ Kept(i, u) => Kept(i, u)'
    PROVE  WsRequests'
<1>1. \A v \in Request \ {q} : WsOf(v)'
  BY OthersKeep
<1>2. WsOf(q)'
  BY DEF WsOf, WsPc
<1> QED BY <1>1, <1>2 DEF WsRequests

LEMMA WsCreate ==
    ASSUME Shape, WsInv, NEW q \in Request, NEW w \in Workspace, NEW row \in WorkspaceRow,
           CreateWorkspace(q, w, row)
    PROVE  WsInv' /\ Shape' /\ req'[q].pc \in WsPc
                  /\ \A v \in Request \ {q} : req'[v] = req[v]
<1>1. /\ Shape' /\ req'[q] = [pc |-> "create", ws |-> w, row |-> row]
      /\ \A v \in Request \ {q} : req'[v] = req[v]
  BY Moves DEF CreateWorkspace
<1>2. UNCHANGED wsVars
  BY DEF CreateWorkspace
<1>3. WsTypes' /\ Unique' /\ Headed' /\ Accepted'
  BY <1>2 DEF WsInv, wsVars, WsTypes, Unique, Headed, Accepted, Kept, Exists, Invited,
              Insertable, NameFree, RepoAvailable, Owned
<1>4. WsRequests'
  BY <1>1, <1>2 DEF WsInv, wsVars, WsRequests, WsOf, Kept, Invited
<1> QED BY <1>1, <1>3, <1>4 DEF WsInv, WsPc

LEMMA WsCommit ==
    ASSUME Shape, WsInv, NEW q \in Request, CommitWorkspace(q)
    PROVE  WsInv' /\ Shape' /\ req'[q].pc = "done"
                  /\ \A v \in Request \ {q} : req'[v] = req[v]
<1> DEFINE w == req[q].ws
           row == req[q].row
<1>1. /\ w \in Workspace /\ row \in WorkspaceRow
      /\ workspace[w] = None /\ Insertable(row, w)
      /\ workspace' = [workspace EXCEPT ![w] = row]
      /\ member' = [member EXCEPT ![w][row.owner] = "owner"]
      /\ UNCHANGED <<invite, expelled>>
  BY DEF WsInv, WsRequests, WsOf, CommitWorkspace, At
<1>2. /\ Shape' /\ req'[q].pc = "done"
      /\ \A v \in Request \ {q} : req'[v] = req[v]
  BY Ends DEF CommitWorkspace
<1> HIDE DEF w, row
<1>3. /\ Unique' /\ workspace' \in [Workspace -> WorkspaceRow \cup {None, Gone}]
      /\ workspace'[w] = row /\ \A x \in Workspace \ {w} : workspace'[x] = workspace[x]
  BY <1>1, UniqueWrite DEF WsInv
<1>4. row.owner \in User
  BY <1>1 DEF WorkspaceRow
<1>5. /\ member' \in [Workspace -> [User -> MemberRole]]
      /\ member'[w][row.owner] = "owner"
      /\ \A x \in Workspace, u \in User :
            member'[x][u] = member[x][u] \/ member'[x][u] = "owner"
  BY <1>1, <1>4 DEF WsInv, WsTypes, MemberRole
<1>6. ASSUME NEW x \in Workspace, Exists(x)' PROVE (member[x][workspace[x].owner] = "owner")'
  <2>1. CASE x = w
    BY <2>1, <1>3, <1>5
  <2>2. CASE x # w
    <3>1. workspace'[x] = workspace[x] /\ Exists(x)
      BY <2>2, <1>3, <1>6 DEF Exists
    <3>2. workspace[x].owner \in User /\ member[x][workspace[x].owner] = "owner"
      BY <3>1 DEF WsInv, WsTypes, Headed, Exists, WorkspaceRow
    <3> QED BY <3>1, <3>2, <1>5
  <2> QED BY <2>1, <2>2
<1>7. ASSUME NEW i \in Invite, NEW u \in User, Kept(i, u) PROVE Kept(i, u)'
  <2>1. Invited(i) => invite[i].ws \in Workspace
    BY DEF WsInv, WsTypes, Invited, InviteRow
  <2> QED BY <1>1, <1>5, <1>7, <2>1 DEF Kept, Invited
<1>8. Accepted'
  BY <1>1, <1>7 DEF WsInv, Accepted, Invited
<1>9. WsRequests'
  BY <1>1, <1>2, <1>7, WsKeeps DEF WsPc
<1> QED BY <1>1, <1>2, <1>3, <1>5, <1>6, <1>8, <1>9 DEF WsInv, WsTypes, Headed

LEMMA WsUpdate ==
    ASSUME Shape, WsInv, NEW q \in Request, NEW u \in User, NEW w \in Workspace,
           NEW row \in WorkspaceRow, UpdateWorkspace(q, u, w, row)
    PROVE  WsInv' /\ Shape' /\ req'[q].pc = "done"
                  /\ \A v \in Request \ {q} : req'[v] = req[v]
<1>1. /\ Exists(w) /\ workspace[w].owner = u /\ row.owner = u /\ Insertable(row, w)
      /\ workspace' = [workspace EXCEPT ![w] = row]
      /\ UNCHANGED <<member, invite, expelled>>
  BY DEF UpdateWorkspace, Owned
<1>2. /\ Shape' /\ req'[q].pc = "done"
      /\ \A v \in Request \ {q} : req'[v] = req[v]
  BY Ends DEF UpdateWorkspace
<1>3. /\ Unique' /\ workspace' \in [Workspace -> WorkspaceRow \cup {None, Gone}]
      /\ workspace'[w] = row /\ \A x \in Workspace \ {w} : workspace'[x] = workspace[x]
  BY <1>1, UniqueWrite DEF WsInv
<1>4. Headed'
  BY <1>1, <1>3 DEF WsInv, Headed, Exists
<1>5. Accepted'
  BY <1>1 DEF WsInv, Accepted, Invited, Kept
<1>6. WsRequests'
  BY <1>1, <1>2, WsKeeps DEF WsPc, Kept, Invited
<1> QED BY <1>1, <1>2, <1>3, <1>4, <1>5, <1>6 DEF WsInv, WsTypes

LEMMA WsDelete ==
    ASSUME Shape, WsInv, NEW q \in Request, NEW u \in User, NEW w \in Workspace,
           DeleteWorkspace(q, u, w)
    PROVE  WsInv' /\ Shape' /\ req'[q].pc = "done"
                  /\ \A v \in Request \ {q} : req'[v] = req[v]
<1>1. /\ workspace' = [workspace EXCEPT ![w] = Gone]
      /\ member' = [member EXCEPT ![w] = [x \in User |-> "none"]]
      /\ invite' = [i \in Invite |->
                      IF Invited(i) /\ invite[i].ws = w THEN Gone ELSE invite[i]]
      /\ expelled' = {e \in expelled : e[1] # w}
  BY DEF DeleteWorkspace
<1>2. /\ Shape' /\ req'[q].pc = "done"
      /\ \A v \in Request \ {q} : req'[v] = req[v]
  BY Ends DEF DeleteWorkspace
<1>3. WsTypes'
  BY <1>1 DEF WsInv, WsTypes, MemberRole
<1>4. /\ workspace'[w] = Gone
      /\ \A x \in Workspace \ {w} : workspace'[x] = workspace[x] /\ member'[x] = member[x]
  BY <1>1 DEF WsInv, WsTypes
<1>5. \A x \in Workspace : Exists(x)' => x # w /\ Exists(x)
  BY <1>4 DEF Exists
<1>6. Unique'
  BY <1>4, <1>5 DEF WsInv, Unique, Insertable, NameFree, RepoAvailable, Owned
<1>7. Headed'
  BY <1>4, <1>5 DEF WsInv, Headed
<1>8. \A i \in Invite : Invited(i)' =>
         /\ Invited(i) /\ invite'[i] = invite[i]
         /\ invite[i].ws \in Workspace /\ invite[i].ws # w
  BY <1>1 DEF WsInv, WsTypes, Invited, InviteRow
<1>9. ASSUME NEW i \in Invite, NEW m \in User, Kept(i, m) PROVE Kept(i, m)'
  <2>1. SUFFICES ASSUME Invited(i)'
                 PROVE  \/ member'[invite[i].ws][m] # "none"
                        \/ <<invite[i].ws, m>> \in expelled'
    BY <1>8 DEF Kept
  <2>2. Invited(i) /\ invite[i].ws \in Workspace /\ invite[i].ws # w
    BY <1>8, <2>1
  <2>3. CASE member[invite[i].ws][m] # "none"
    BY <1>4, <2>2, <2>3
  <2>4. CASE <<invite[i].ws, m>> \in expelled
    BY <1>1, <2>2, <2>4
  <2> QED BY <1>9, <2>2, <2>3, <2>4 DEF Kept
<1>10. Accepted'
  BY <1>8, <1>9 DEF WsInv, Accepted
<1>11. \A i \in Invite : invite[i] # None => invite'[i] # None
  BY <1>1, WorkspaceAssumption
<1>12. WsRequests'
  BY <1>2, <1>9, <1>11, WsKeeps DEF WsPc
<1> QED BY <1>2, <1>3, <1>6, <1>7, <1>10, <1>12 DEF WsInv

LEMMA WsRemove ==
    ASSUME Shape, WsInv, NEW q \in Request, NEW u \in User, NEW w \in Workspace,
           NEW m \in User, RemoveMember(q, u, w, m)
    PROVE  WsInv' /\ Shape' /\ req'[q].pc = "done"
                  /\ \A v \in Request \ {q} : req'[v] = req[v]
<1>1. /\ member[w][m] = "member"
      /\ member' = [member EXCEPT ![w][m] = "none"]
      /\ expelled' = expelled \cup {<<w, m>>}
      /\ UNCHANGED <<workspace, invite>>
  BY DEF RemoveMember
<1>2. /\ Shape' /\ req'[q].pc = "done"
      /\ \A v \in Request \ {q} : req'[v] = req[v]
  BY Ends DEF RemoveMember
<1>3. /\ WsTypes'
      /\ \A x \in Workspace, y \in User :
            <<x, y>> = <<w, m>> \/ member'[x][y] = member[x][y]
  BY <1>1 DEF WsInv, WsTypes, MemberRole
<1>4. Unique'
  BY <1>1 DEF WsInv, Unique, Exists, Insertable, NameFree, RepoAvailable, Owned
<1>5. Headed'
  BY <1>1, <1>3 DEF WsInv, WsTypes, Headed, Exists, WorkspaceRow
<1>6. ASSUME NEW i \in Invite, NEW y \in User, Kept(i, y) PROVE Kept(i, y)'
  <2>1. Invited(i) => invite[i].ws \in Workspace
    BY DEF WsInv, WsTypes, Invited, InviteRow
  <2> QED BY <1>1, <1>3, <1>6, <2>1 DEF Kept, Invited
<1>7. Accepted'
  BY <1>1, <1>6 DEF WsInv, Accepted, Invited
<1>8. WsRequests'
  BY <1>1, <1>2, <1>6, WsKeeps DEF WsPc
<1> QED BY <1>2, <1>3, <1>4, <1>5, <1>7, <1>8 DEF WsInv

-----------------------------------------------------------------------------
(* Invites.                                                                *)

\* The parts that only the rows of workspaces and members concern.
LEMMA WsRowsAlone ==
    ASSUME WsInv, UNCHANGED workspace,
           \A w \in Workspace, u \in User : member[w][u] # "none" => member'[w][u] = member[w][u]
    PROVE  Unique' /\ Headed'
<1>1. Unique'
  BY DEF WsInv, Unique, Exists, Insertable, NameFree, RepoAvailable, Owned
<1>2. Headed'
  BY DEF WsInv, WsTypes, Headed, Exists, WorkspaceRow
<1> QED BY <1>1, <1>2

LEMMA WsInvite ==
    ASSUME Shape, WsInv, NEW q \in Request, NEW u \in User, NEW w \in Workspace,
           NEW i \in Invite, CreateInvite(q, u, w, i)
    PROVE  WsInv' /\ Shape' /\ req'[q].pc = "done"
                  /\ \A v \in Request \ {q} : req'[v] = req[v]
<1> DEFINE row == [ws |-> w, status |-> "pending", late |-> FALSE, by |-> None]
<1>1. /\ invite[i] = None /\ invite' = [invite EXCEPT ![i] = row]
      /\ UNCHANGED <<workspace, member, expelled>>
  BY DEF CreateInvite
<1>2. /\ Shape' /\ req'[q].pc = "done"
      /\ \A v \in Request \ {q} : req'[v] = req[v]
  BY Ends DEF CreateInvite
<1>3. row \in InviteRow /\ row.status = "pending"
  BY DEF InviteRow
<1> HIDE DEF row
<1>4. /\ WsTypes' /\ invite'[i] = row
      /\ \A j \in Invite \ {i} : invite'[j] = invite[j]
  BY <1>1, <1>3 DEF WsInv, WsTypes
<1>5. Unique' /\ Headed'
  BY <1>1, WsRowsAlone
<1>6. ASSUME NEW j \in Invite, NEW y \in User, invite[j] # None, Kept(j, y)
      PROVE  Kept(j, y)'
  BY <1>1, <1>4, <1>6 DEF Kept, Invited
<1>7. Accepted'
  BY <1>1, <1>3, <1>4 DEF WsInv, Accepted, Invited, Kept
<1>8. WsRequests'
  BY <1>1, <1>2, <1>4, <1>6, WsKeeps DEF WsPc
<1> QED BY <1>2, <1>4, <1>5, <1>7, <1>8 DEF WsInv

\* A change of an invite's row that leaves its workspace.
LEMMA InviteChange ==
    ASSUME WsInv, NEW i \in Invite, Invited(i), NEW row \in InviteRow,
           row.ws = invite[i].ws, invite' = [invite EXCEPT ![i] = row],
           UNCHANGED <<workspace, member, expelled>>
    PROVE  /\ WsTypes' /\ Unique' /\ Headed'
           /\ invite'[i] = row /\ \A j \in Invite \ {i} : invite'[j] = invite[j]
           /\ \A j \in Invite : invite[j] # None => invite'[j] # None
           /\ \A j \in Invite, y \in User : Kept(j, y) => Kept(j, y)'
<1>1. /\ WsTypes' /\ invite'[i] = row
      /\ \A j \in Invite \ {i} : invite'[j] = invite[j]
  BY DEF WsInv, WsTypes
<1>2. Unique' /\ Headed'
  BY WsRowsAlone
<1>3. \A j \in Invite : invite[j] # None => invite'[j] # None
  BY <1>1, WorkspaceAssumption
<1>4. \A j \in Invite, y \in User : Kept(j, y) => Kept(j, y)'
  BY <1>1 DEF Kept, Invited
<1> QED BY <1>1, <1>2, <1>3, <1>4

LEMMA WsRevoke ==
    ASSUME Shape, WsInv, NEW q \in Request, NEW u \in User, NEW i \in Invite,
           RevokeInvite(q, u, i)
    PROVE  WsInv' /\ Shape' /\ req'[q].pc = "done"
                  /\ \A v \in Request \ {q} : req'[v] = req[v]
<1> DEFINE row == [invite[i] EXCEPT !.status = "revoked"]
<1>1. /\ Invited(i) /\ invite' = [invite EXCEPT ![i] = row]
      /\ UNCHANGED <<workspace, member, expelled>>
  BY DEF RevokeInvite
<1>2. /\ Shape' /\ req'[q].pc = "done"
      /\ \A v \in Request \ {q} : req'[v] = req[v]
  BY Ends DEF RevokeInvite
<1>3. row \in InviteRow /\ row.ws = invite[i].ws /\ row.status = "revoked"
  BY <1>1 DEF WsInv, WsTypes, Invited, InviteRow
<1> HIDE DEF row
<1>4. /\ WsTypes' /\ Unique' /\ Headed'
      /\ invite'[i] = row /\ \A j \in Invite \ {i} : invite'[j] = invite[j]
      /\ \A j \in Invite : invite[j] # None => invite'[j] # None
      /\ \A j \in Invite, y \in User : Kept(j, y) => Kept(j, y)'
  BY <1>1, <1>3, InviteChange
<1>5. Accepted'
  BY <1>3, <1>4 DEF WsInv, Accepted, Invited
<1>6. WsRequests'
  BY <1>2, <1>4, WsKeeps DEF WsPc
<1> QED BY <1>2, <1>4, <1>5, <1>6 DEF WsInv

LEMMA WsExpire ==
    ASSUME WsInv, NEW i \in Invite, Expire(i)
    PROVE  WsInv'
<1> DEFINE row == [invite[i] EXCEPT !.late = TRUE]
<1>1. /\ Invited(i) /\ invite' = [invite EXCEPT ![i] = row]
      /\ UNCHANGED <<req, workspace, member, expelled>>
  BY DEF Expire
<1>2. /\ row \in InviteRow /\ row.ws = invite[i].ws
      /\ row.status = invite[i].status /\ row.by = invite[i].by
  BY <1>1 DEF WsInv, WsTypes, Invited, InviteRow
<1> HIDE DEF row
<1>3. /\ WsTypes' /\ Unique' /\ Headed'
      /\ invite'[i] = row /\ \A j \in Invite \ {i} : invite'[j] = invite[j]
      /\ \A j \in Invite : invite[j] # None => invite'[j] # None
      /\ \A j \in Invite, y \in User : Kept(j, y) => Kept(j, y)'
  BY <1>1, <1>2, InviteChange
<1>4. Accepted'
  BY <1>1, <1>2, <1>3 DEF WsInv, Accepted, Invited
<1>5. WsRequests'
  BY <1>1, <1>3, OthersKeep DEF WsRequests
<1> QED BY <1>3, <1>4, <1>5 DEF WsInv

\* Both who mark an invite mark it for a user that is let in.
LEMMA WsMarks ==
    ASSUME Shape, WsInv, NEW q \in Request, NEW i \in Invite, NEW u \in User,
           Invited(i), Kept(i, u), invite' = Marked(i, u), Finish(q),
           UNCHANGED <<workspace, member, expelled>>
    PROVE  WsInv' /\ Shape' /\ req'[q].pc = "done"
                  /\ \A v \in Request \ {q} : req'[v] = req[v]
<1> DEFINE row == [invite[i] EXCEPT !.status = "accepted", !.by = u]
<1>1. row \in InviteRow /\ row.ws = invite[i].ws /\ row.by = u
  BY DEF WsInv, WsTypes, Invited, InviteRow
<1>2. invite' = [invite EXCEPT ![i] = row]
  BY DEF WsInv, WsTypes, Marked
<1>3. /\ Shape' /\ req'[q].pc = "done"
      /\ \A v \in Request \ {q} : req'[v] = req[v]
  BY Ends
<1> HIDE DEF row
<1>4. /\ WsTypes' /\ Unique' /\ Headed'
      /\ invite'[i] = row /\ \A j \in Invite \ {i} : invite'[j] = invite[j]
      /\ \A j \in Invite : invite[j] # None => invite'[j] # None
      /\ \A j \in Invite, y \in User : Kept(j, y) => Kept(j, y)'
  BY <1>1, <1>2, InviteChange
<1>5. Accepted'
  BY <1>1, <1>4 DEF WsInv, Accepted, Invited
<1>6. WsRequests'
  BY <1>3, <1>4, WsKeeps DEF WsPc
<1> QED BY <1>3, <1>4, <1>5, <1>6 DEF WsInv

LEMMA WsMarkAccepted ==
    ASSUME Shape, WsInv, NEW q \in Request, MarkAccepted(q)
    PROVE  WsInv' /\ Shape' /\ req'[q].pc = "done"
                  /\ \A v \in Request \ {q} : req'[v] = req[v]
<1>1. /\ req[q].inv \in Invite /\ req[q].user \in User
      /\ Invited(req[q].inv) /\ Kept(req[q].inv, req[q].user)
  BY DEF WsInv, WsRequests, WsOf, MarkAccepted, At
<1> QED BY <1>1, WsMarks DEF MarkAccepted

\* The newcomer is a member before the request goes on to mark the invite.
LEMMA WsAccept ==
    ASSUME Shape, WsInv, NEW q \in Request, NEW u \in User, NEW i \in Invite,
           AcceptInvite(q, u, i)
    PROVE  WsInv' /\ Shape' /\ req'[q].pc \in {"mark", "done"}
                  /\ \A v \in Request \ {q} : req'[v] = req[v]
<1> DEFINE w == invite[i].ws
<1>1. Invited(i) /\ w \in Workspace /\ UNCHANGED workspace
  BY DEF WsInv, WsTypes, Invited, InviteRow, AcceptInvite
<1>2. CASE member[w][u] # "none"
  <2>1. Kept(i, u)
    BY <1>2 DEF Kept
  <2>2. invite' = Marked(i, u) /\ Finish(q) /\ UNCHANGED <<workspace, member, expelled>>
    BY <1>2 DEF AcceptInvite
  <2> QED BY <1>1, <2>1, <2>2, WsMarks
<1>3. CASE member[w][u] = "none"
  <2>1. /\ member' = [member EXCEPT ![w][u] = "member"]
        /\ expelled' = expelled \ {<<w, u>>}
        /\ Goto(q, [pc |-> "mark", inv |-> i, user |-> u])
        /\ UNCHANGED invite
    BY <1>3 DEF AcceptInvite
  <2>2. /\ Shape' /\ req'[q] = [pc |-> "mark", inv |-> i, user |-> u]
        /\ \A v \in Request \ {q} : req'[v] = req[v]
    BY <2>1, Moves
  <2> HIDE DEF w
  <2>3. /\ WsTypes' /\ member'[w][u] = "member"
        /\ \A x \in Workspace, y \in User :
              <<x, y>> = <<w, u>> \/ member'[x][y] = member[x][y]
    BY <1>1, <2>1 DEF WsInv, WsTypes, MemberRole
  <2>4. Unique' /\ Headed'
    BY <1>1, <1>3, <2>3, WsRowsAlone
  <2>5. ASSUME NEW j \in Invite, NEW y \in User, Kept(j, y) PROVE Kept(j, y)'
    <3>1. SUFFICES ASSUME Invited(j)
                   PROVE  \/ member'[invite[j].ws][y] # "none"
                          \/ <<invite[j].ws, y>> \in expelled'
      BY <2>1 DEF Kept, Invited
    <3>2. invite[j].ws \in Workspace
      BY <3>1 DEF WsInv, WsTypes, Invited, InviteRow
    <3>3. CASE <<invite[j].ws, y>> = <<w, u>>
      BY <2>3, <3>3
    <3>4. CASE <<invite[j].ws, y>> # <<w, u>>
      BY <2>1, <2>3, <2>5, <3>1, <3>2, <3>4 DEF Kept
    <3> QED BY <3>3, <3>4
  <2>6. Accepted'
    BY <2>1, <2>5 DEF WsInv, Accepted, Invited
  <2>7. Kept(i, u)'
    BY <2>1, <2>3 DEF Kept, w
  <2>8. WsRequests'
    <3>1. invite'[i] # None
      BY <1>1, <2>1 DEF Invited
    <3>2. req'[q].pc = "mark" /\ req'[q].inv = i /\ req'[q].user = u
      BY <2>2
    <3>3. \A v \in Request \ {q} : WsOf(v)'
      BY <2>1, <2>2, <2>5, OthersKeep
    <3>4. WsOf(q)'
      BY <2>7, <3>1, <3>2 DEF WsOf, Kept, Invited
    <3> QED BY <3>3, <3>4 DEF WsRequests
  <2> QED BY <2>2, <2>3, <2>4, <2>6, <2>8 DEF WsInv
<1> QED BY <1>2, <1>3

LEMMA WsStep ==
    ASSUME Shape, WsInv, NEW q \in Request, WorkspaceRequest(q)
    PROVE  /\ WsInv' /\ Shape' /\ req'[q].pc \in WsPc \cup {"done"}
           /\ \A v \in Request \ {q} : req'[v] = req[v]
<1>1. ASSUME NEW w \in Workspace, NEW row \in WorkspaceRow, CreateWorkspace(q, w, row)
      PROVE  WsInv' /\ Shape' /\ req'[q].pc \in WsPc
                    /\ \A v \in Request \ {q} : req'[v] = req[v]
  BY <1>1, WsCreate
<1>2. CASE CommitWorkspace(q)
  BY <1>2, WsCommit
<1>3. ASSUME NEW u \in User, NEW w \in Workspace, NEW row \in WorkspaceRow,
             UpdateWorkspace(q, u, w, row)
      PROVE  WsInv' /\ Shape' /\ req'[q].pc = "done"
                    /\ \A v \in Request \ {q} : req'[v] = req[v]
  BY <1>3, WsUpdate
<1>4. ASSUME NEW u \in User, NEW w \in Workspace, DeleteWorkspace(q, u, w)
      PROVE  WsInv' /\ Shape' /\ req'[q].pc = "done"
                    /\ \A v \in Request \ {q} : req'[v] = req[v]
  BY <1>4, WsDelete
<1>5. ASSUME NEW u \in User, NEW m \in User, NEW w \in Workspace, RemoveMember(q, u, w, m)
      PROVE  WsInv' /\ Shape' /\ req'[q].pc = "done"
                    /\ \A v \in Request \ {q} : req'[v] = req[v]
  BY <1>5, WsRemove
<1>6. ASSUME NEW u \in User, NEW w \in Workspace, NEW i \in Invite, CreateInvite(q, u, w, i)
      PROVE  WsInv' /\ Shape' /\ req'[q].pc = "done"
                    /\ \A v \in Request \ {q} : req'[v] = req[v]
  BY <1>6, WsInvite
<1>7. ASSUME NEW u \in User, NEW i \in Invite, RevokeInvite(q, u, i)
      PROVE  WsInv' /\ Shape' /\ req'[q].pc = "done"
                    /\ \A v \in Request \ {q} : req'[v] = req[v]
  BY <1>7, WsRevoke
<1>8. ASSUME NEW u \in User, NEW i \in Invite, AcceptInvite(q, u, i)
      PROVE  WsInv' /\ Shape' /\ req'[q].pc \in {"mark", "done"}
                    /\ \A v \in Request \ {q} : req'[v] = req[v]
  BY <1>8, WsAccept
<1>9. CASE MarkAccepted(q)
  BY <1>9, WsMarkAccepted
<1> QED
  BY <1>1, <1>2, <1>3, <1>4, <1>5, <1>6, <1>7, <1>8, <1>9 DEF WorkspaceRequest, WsPc

-----------------------------------------------------------------------------
(* Connections and notices.                                                *)

LEMMA SendKeeps ==
    ASSUME OaInv, NEW u \in User, NEW about \in {"ready", "started", "ended"},
           Send(u, about)
    PROVE  notices' \subseteq {"ready", "started", "ended"} \X Account
<1>1. SlackOf(u) \in Account \cup {None}
  BY DEF OaInv, SlackOf, Provider
<1>2. SlackNotice(u, about) \subseteq {"ready", "started", "ended"} \X Account
  BY <1>1 DEF SlackNotice
<1> QED BY <1>2 DEF Send, OaInv

LEMMA OaNotice ==
    ASSUME OaInv, NEW q \in Request, UNCHANGED connection, req'[q].pc # "exchange",
           notices' \subseteq {"ready", "started", "ended"} \X Account,
           \A v \in Request \ {q} : req'[v] = req[v]
    PROVE  OaInv'
  BY DEF OaInv

LEMMA OaStep ==
    ASSUME Shape, OaInv, NEW q \in Request, OAuthRequest(q)
    PROVE  /\ OaInv' /\ Shape' /\ req'[q].pc \in {"exchange", "done"}
           /\ \A v \in Request \ {q} : req'[v] = req[v]
           /\ UNCHANGED wsVars
<1>1. ASSUME NEW p \in Provider, NEW u \in User, NEW a \in Account, OAuthCallback(q, p, u, a)
      PROVE  /\ OaInv' /\ Shape' /\ req'[q].pc \in {"exchange", "done"}
             /\ \A v \in Request \ {q} : req'[v] = req[v]
             /\ UNCHANGED wsVars
  <2>1. /\ Shape' /\ req'[q] = [pc |-> "exchange", provider |-> p, user |-> u, account |-> a]
        /\ \A v \in Request \ {q} : req'[v] = req[v]
    BY <1>1, Moves DEF OAuthCallback
  <2>2. UNCHANGED <<wsVars, oauthVars>>
    BY <1>1 DEF OAuthCallback
  <2> QED BY <2>1, <2>2 DEF OaInv, oauthVars
<1>2. CASE Connect(q)
  <2>1. /\ Shape' /\ req'[q].pc = "done"
        /\ \A v \in Request \ {q} : req'[v] = req[v]
    BY <1>2, Ends DEF Connect
  <2>2. /\ req[q].provider \in Provider /\ req[q].user \in User /\ req[q].account \in Account
    BY <1>2 DEF Connect, OaInv, At
  <2>3. /\ connection' = [connection EXCEPT ![req[q].provider][req[q].user] = req[q].account]
        /\ UNCHANGED <<wsVars, notices>>
    BY <1>2 DEF Connect
  <2>4. connection' \in [Provider -> [User -> Account \cup {None}]]
    BY <2>2, <2>3 DEF OaInv
  <2> QED BY <2>1, <2>3, <2>4 DEF OaInv
<1>3. ASSUME NEW p \in Provider, NEW u \in User, Disconnect(q, p, u)
      PROVE  /\ OaInv' /\ Shape' /\ req'[q].pc \in {"exchange", "done"}
             /\ \A v \in Request \ {q} : req'[v] = req[v]
             /\ UNCHANGED wsVars
  <2>1. /\ Shape' /\ req'[q].pc = "done"
        /\ \A v \in Request \ {q} : req'[v] = req[v]
    BY <1>3, Ends DEF Disconnect
  <2>2. /\ connection' = [connection EXCEPT ![p][u] = None]
        /\ UNCHANGED <<wsVars, notices>>
    BY <1>3 DEF Disconnect
  <2>3. connection' \in [Provider -> [User -> Account \cup {None}]]
    BY <2>2 DEF OaInv
  <2> QED BY <2>1, <2>2, <2>3 DEF OaInv
<1> QED BY <1>1, <1>2, <1>3 DEF OAuthRequest

-----------------------------------------------------------------------------
(* Runs.  No step takes a row, a link or an end that was found back.       *)

Grows ==
    /\ \A r \in Run : run[r] # None => run'[r] # None
    /\ \A r \in Run : link[r] # None => link'[r] # None
    /\ \A r \in Run, e \in 0..ReviveCap : Closed(r, e) => Closed(r, e)'

LEMMA OthersOfRun ==
    ASSUME GhInv, Grows, NEW v \in Request, req'[v] = req[v]
    PROVE  OfRun(v)'
<1>1. OfRun(v)
  BY DEF GhInv, GhRequests
<1>2. req[v].pc \in GhPc \ {"accepted"} => req[v].run \in Run /\ run'[req[v].run] # None
  BY <1>1 DEF OfRun, Grows
<1>3. req[v].pc \in Linking => req[v].run \in Run /\ link'[req[v].run] # None
  BY <1>1 DEF OfRun, Grows, GhPc, Linking, Making, Predicting, Reporting
<1> QED BY <1>1, <1>2, <1>3 DEF OfRun

\* A step of the request q that finds no end and posts nothing.
LEMMA NoNews ==
    ASSUME GhInv, Grows, NEW q \in Request, UNCHANGED posted,
           \A v \in Request \ {q} : req'[v] = req[v],
           \A r \in Run, e \in 0..ReviveCap : Reports(q, r, e)' => Reports(q, r, e)
    PROVE  OnePost'
<1>1. \A v \in Request, r \in Run, e \in 0..ReviveCap : Reports(v, r, e)' => Reports(v, r, e)
  BY DEF Reports
<1> QED BY <1>1 DEF GhInv, OnePost, Grows

LEMMA RunWrite ==
    ASSUME GhTypes, NEW r \in Run, NEW row \in RunRow, run' = [run EXCEPT ![r] = row]
    PROVE  /\ run' \in [Run -> RunRow \cup {None}]
           /\ run'[r] = row /\ row # None
           /\ \A x \in Run \ {r} : run'[x] = run[x]
  BY GithubAssumption DEF GhTypes

LEMMA LinkWrite ==
    ASSUME GhTypes, NEW r \in Run, NEW row \in LinkRow, link' = [link EXCEPT ![r] = row]
    PROVE  /\ link' \in [Run -> LinkRow \cup {None}]
           /\ link'[r] = row /\ row # None
           /\ \A x \in Run \ {r} : link'[x] = link[x]
  BY GithubAssumption DEF GhTypes

-----------------------------------------------------------------------------
(* Steps.                                                                  *)

Notices == {"ready", "started", "ended"} \X Account

\* What every step of a request q about runs comes to.
Keeps(q) ==
    /\ GhInv' /\ Shape' /\ req'[q].pc \in GhPc \cup {"done"}
    /\ \A v \in Request \ {q} : req'[v] = req[v]
    /\ notices' \subseteq Notices
    /\ UNCHANGED <<wsVars, connection>>

Ready == Shape /\ OaInv /\ GhInv

\* A step keeps all if it only adds, what its request carries is right, and
\* it reports no end.
LEMMA Steps ==
    ASSUME Ready, NEW q \in Request, GhTypes', Grows, OfRun(q)', UNCHANGED <<wsVars, connection, posted>>,
           Shape', req'[q].pc \in GhPc \cup {"done"}, \A v \in Request \ {q} : req'[v] = req[v],
           notices' \subseteq Notices,
           \A r \in Run, e \in 0..ReviveCap : Reports(q, r, e)' => Reports(q, r, e)
    PROVE  Keeps(q)
<1>1. \A v \in Request : OfRun(v)'
  BY OthersOfRun DEF Ready
<1>2. OnePost'
  BY NoNews DEF Ready
<1> QED BY <1>1, <1>2 DEF Keeps, GhInv, GhRequests

\* The same of a step that changes no row.
LEMMA Stays ==
    ASSUME Ready, NEW q \in Request, OfRun(q)', UNCHANGED <<wsVars, oauthVars, ghVars>>,
           Shape', req'[q].pc \in GhPc \cup {"done"}, \A v \in Request \ {q} : req'[v] = req[v],
           \A r \in Run, e \in 0..ReviveCap : Reports(q, r, e)' => Reports(q, r, e)
    PROVE  Keeps(q)
<1>1. GhTypes'
  BY DEF Ready, GhInv, GhTypes, ghVars
<1>2. Grows
  BY DEF Grows, Closed, ghVars
<1>3. notices' \subseteq Notices /\ UNCHANGED <<wsVars, connection, posted>>
  BY DEF Ready, OaInv, oauthVars, ghVars, Notices
<1> QED BY <1>1, <1>2, <1>3, Steps

\* A request that is over carries nothing.
LEMMA Over ==
    ASSUME Ready, NEW q \in Request, Finish(q), UNCHANGED posted
    PROVE  /\ Shape' /\ req'[q].pc \in GhPc \cup {"done"} /\ OfRun(q)'
           /\ \A v \in Request \ {q} : req'[v] = req[v]
           /\ \A r \in Run, e \in 0..ReviveCap : Reports(q, r, e)' => Reports(q, r, e)
<1>1. Shape' /\ req'[q].pc = "done" /\ \A v \in Request \ {q} : req'[v] = req[v]
  BY Ends DEF Ready
<1>2. OfRun(q)'
  BY <1>1 DEF OfRun, GhPc, Making, Predicting, Linking, Running, Reporting
<1> QED BY <1>1, <1>2 DEF Reports

LEMMA GhEnds ==
    ASSUME Ready, NEW q \in Request, Finish(q), UNCHANGED <<wsVars, oauthVars, ghVars>>
    PROVE  Keeps(q)
<1>1. UNCHANGED posted
  BY DEF ghVars
<1> QED BY <1>1, Over, Stays

-----------------------------------------------------------------------------
(* The webhook and its run.                                                *)

LEMMA GhReceive ==
    ASSUME Ready, NEW q \in Request, NEW c \in Commit, ReceiveWebhook(q, c)
    PROVE  Keeps(q)
<1>1. /\ Shape' /\ req'[q] = [pc |-> "accepted", commit |-> c]
      /\ \A v \in Request \ {q} : req'[v] = req[v]
  BY Moves DEF Ready, ReceiveWebhook
<1>2. UNCHANGED <<wsVars, oauthVars, ghVars>> /\ UNCHANGED posted
  BY DEF ReceiveWebhook, ghVars
<1>3. OfRun(q)'
  BY <1>1 DEF OfRun, GhPc, Making, Predicting, Linking, Running, Reporting
<1>4. req'[q].pc \in GhPc /\ req'[q].pc \notin {"terminal", "post"}
  BY <1>1 DEF GhPc
<1> QED BY <1>1, <1>2, <1>3, <1>4, Stays DEF Reports

LEMMA GhDeliver ==
    ASSUME Ready, WsTypes, NEW q \in Request, Deliver(q)
    PROVE  Keeps(q)
<1>1. CASE Finish(q) /\ UNCHANGED run
  BY <1>1, GhEnds DEF Deliver, ghVars
<1>2. ASSUME NEW w \in Workspace, NEW r \in Run, Exists(w), run[r] = None,
             run' = [run EXCEPT ![r] = [owner |-> workspace[w].owner,
                                        status |-> "pending", workflow |-> "none"]],
             Goto(q, [pc |-> "link", run |-> r, commit |-> req[q].commit])
      PROVE  Keeps(q)
  <2> DEFINE row == [owner |-> workspace[w].owner, status |-> "pending", workflow |-> "none"]
  <2>1. row \in RunRow
    BY <1>2 DEF WsTypes, Exists, WorkspaceRow, RunRow
  <2>2. run' = [run EXCEPT ![r] = row]
    BY <1>2
  <2> HIDE DEF row
  <2>3. /\ run' \in [Run -> RunRow \cup {None}] /\ run'[r] # None
        /\ \A x \in Run \ {r} : run'[x] = run[x]
    BY <2>1, <2>2, RunWrite DEF Ready, GhInv
  <2>4. /\ At(q, "accepted") /\ UNCHANGED <<wsVars, oauthVars, execution, link, revived, posted>>
    BY DEF Deliver
  <2>5. /\ Shape' /\ req'[q] = [pc |-> "link", run |-> r, commit |-> req[q].commit]
        /\ \A v \in Request \ {q} : req'[v] = req[v]
    BY <1>2, Moves DEF Ready
  <2>6. GhTypes'
    BY <2>3, <2>4 DEF Ready, GhInv, GhTypes
  <2>7. Grows
    BY <1>2, <2>3, <2>4 DEF Grows, Closed
  <2>8. req[q].commit \in Commit
    BY <2>4 DEF Ready, GhInv, GhRequests, OfRun, At
  <2>9. req'[q] \in Delivery /\ req'[q].pc = "link" /\ req'[q].run = r
    BY <2>5, <2>8 DEF Delivery, Predicting, Making
  <2>10. OfRun(q)'
    BY <2>3, <2>9 DEF OfRun, GhPc, Making, Predicting, Linking, Running, Reporting
  <2>11. req'[q].pc \in GhPc /\ notices' \subseteq Notices /\ UNCHANGED <<wsVars, connection, posted>>
    BY <2>4, <2>9 DEF GhPc, Predicting, Making, Ready, OaInv, oauthVars, Notices
  <2>12. \A x \in Run, e \in 0..ReviveCap : Reports(q, x, e)' => Reports(q, x, e)
    BY <2>4, <2>9 DEF Reports
  <2> QED BY <2>5, <2>6, <2>7, <2>10, <2>11, <2>12, Steps
<1> QED BY <1>1, <1>2 DEF Deliver

LEMMA DeliveryMoves ==
    ASSUME NEW x \in Delivery, NEW pc \in Predicting
    PROVE  /\ [x EXCEPT !.pc = pc] \in Delivery /\ [x EXCEPT !.pc = pc].pc = pc
           /\ [x EXCEPT !.pc = pc].run = x.run
  BY DEF Delivery

LEMMA ReportMoves ==
    ASSUME NEW x \in Report, NEW pc \in Reporting
    PROVE  /\ [x EXCEPT !.pc = pc] \in Report /\ [x EXCEPT !.pc = pc].pc = pc
           /\ [x EXCEPT !.pc = pc].run = x.run /\ [x EXCEPT !.pc = pc].by = x.by
           /\ [x EXCEPT !.pc = pc].found = x.found
  BY DEF Report

\* A delivery that goes on: what its request carries, once its link is there.
LEMMA GoesOn ==
    ASSUME Ready, NEW q \in Request, req[q].pc \in Predicting, NEW pc \in Predicting,
           Goto(q, [req[q] EXCEPT !.pc = pc]), UNCHANGED posted
    PROVE  /\ Shape' /\ req'[q] \in Delivery /\ req'[q].pc = pc /\ req'[q].run = req[q].run
           /\ req'[q].pc \in GhPc /\ req[q].run \in Run /\ run[req[q].run] # None
           /\ \A v \in Request \ {q} : req'[v] = req[v]
           /\ \A r \in Run, e \in 0..ReviveCap : Reports(q, r, e)' => Reports(q, r, e)
<1>1. OfRun(q) /\ req[q] \in Delivery /\ req[q].run \in Run /\ run[req[q].run] # None
  BY DEF Ready, GhInv, GhRequests, OfRun, GhPc, Predicting, Making
<1>2. /\ Shape' /\ req'[q] = [req[q] EXCEPT !.pc = pc]
      /\ \A v \in Request \ {q} : req'[v] = req[v]
  BY Moves DEF Ready
<1>3. req'[q] \in Delivery /\ req'[q].pc = pc /\ req'[q].run = req[q].run
  BY <1>1, <1>2, DeliveryMoves
<1>4. pc \in GhPc /\ pc \notin {"terminal", "post"}
  BY DEF GhPc, Predicting, Making
<1> QED BY <1>1, <1>2, <1>3, <1>4 DEF Reports

\* Its row in order, it has what it carries.
LEMMA Delivered ==
    ASSUME NEW q \in Request, req'[q] \in Delivery, req'[q].run \in Run,
           run'[req'[q].run] # None, link'[req'[q].run] # None
    PROVE  OfRun(q)'
  BY DEF OfRun, Delivery, GhPc, Making, Predicting, Linking, Running, Reporting

LEMMA GhCommitLink ==
    ASSUME Ready, NEW q \in Request, CommitLink(q)
    PROVE  Keeps(q)
<1> DEFINE r == req[q].run
           row == NewLink(req[q].commit)
<1>1. /\ req[q].pc = "link" /\ link' = [link EXCEPT ![r] = row]
      /\ UNCHANGED <<wsVars, oauthVars, run, execution, revived, posted>>
  BY DEF CommitLink, At
<1>2. /\ Shape' /\ req'[q] \in Delivery /\ req'[q].pc = "discover" /\ req'[q].run = r
      /\ req'[q].pc \in GhPc /\ r \in Run /\ run[r] # None
      /\ \A v \in Request \ {q} : req'[v] = req[v]
      /\ \A x \in Run, e \in 0..ReviveCap : Reports(q, x, e)' => Reports(q, x, e)
  BY <1>1, GoesOn DEF CommitLink, Predicting, Making
<1>3. row \in LinkRow
  <2>1. req[q] \in Delivery
    BY <1>1 DEF Ready, GhInv, GhRequests, OfRun, Predicting, Making
  <2> QED BY <2>1 DEF NewLink, LinkRow, Delivery
<1> HIDE DEF row
<1>4. /\ link' \in [Run -> LinkRow \cup {None}] /\ link'[r] # None
      /\ \A x \in Run \ {r} : link'[x] = link[x]
  BY <1>1, <1>2, <1>3, LinkWrite DEF Ready, GhInv
<1>5. GhTypes'
  BY <1>1, <1>4 DEF Ready, GhInv, GhTypes
<1>6. Grows
  BY <1>1, <1>4 DEF Grows, Closed
<1>7. OfRun(q)'
  BY <1>1, <1>2, <1>4, Delivered
<1>8. notices' \subseteq Notices /\ UNCHANGED <<wsVars, connection, posted>>
  BY <1>1 DEF Ready, OaInv, oauthVars, Notices
<1> QED BY <1>2, <1>5, <1>6, <1>7, <1>8, Steps

\* A delivery that goes on and changes no row.
LEMMA GhGoesOn ==
    ASSUME Ready, NEW q \in Request, NEW pc \in Predicting,
           req[q].pc \in {"discover", "ready"},
           Goto(q, [req[q] EXCEPT !.pc = pc]), link[req[q].run] # None,
           UNCHANGED <<wsVars, oauthVars, ghVars>>
    PROVE  Keeps(q)
<1>1. UNCHANGED posted /\ req[q].pc \in Predicting
  BY DEF ghVars, Predicting, Making
<1>2. /\ Shape' /\ req'[q] \in Delivery /\ req'[q].run = req[q].run
      /\ req'[q].pc \in GhPc /\ req[q].run \in Run /\ run[req[q].run] # None
      /\ \A v \in Request \ {q} : req'[v] = req[v]
      /\ \A x \in Run, e \in 0..ReviveCap : Reports(q, x, e)' => Reports(q, x, e)
  BY <1>1, GoesOn
<1>3. OfRun(q)'
  BY <1>2, Delivered DEF ghVars
<1> QED BY <1>2, <1>3, Stays

LEMMA GhDiscover ==
    ASSUME Ready, NEW q \in Request, Discover(q)
    PROVE  Keeps(q)
<1>1. req[q].pc = "discover" /\ link[req[q].run] # None
  BY DEF Discover, At, Ready, GhInv, GhRequests, OfRun, Linking
<1> QED BY <1>1, GhGoesOn DEF Discover, Predicting, Making

LEMMA GhPostReady ==
    ASSUME Ready, NEW q \in Request, PostReady(q)
    PROVE  Keeps(q)
<1>1. req[q].pc = "ready" /\ link[req[q].run] # None
  BY DEF PostReady, At, Ready, GhInv, GhRequests, OfRun, Linking
<1>2. Goto(q, [req[q] EXCEPT !.pc = "ready_ids"]) /\ UNCHANGED <<wsVars, oauthVars, ghVars>>
  BY <1>1 DEF PostReady
<1> QED BY <1>1, <1>2, GhGoesOn DEF Predicting, Making

\* A write of the status of a run that is there.
LEMMA StatusWrite ==
    ASSUME GhTypes, NEW r \in Run, run[r] # None, NEW status \in {"pending", "failed",
           "awaiting_approval", "running", "completed"},
           run' = [run EXCEPT ![r].status = status], UNCHANGED <<execution, link, revived, posted>>
    PROVE  GhTypes' /\ Grows /\ run'[r] # None
<1> DEFINE row == [run[r] EXCEPT !.status = status]
<1>1. run[r] \in RunRow
  BY DEF GhTypes
<1>2. row \in RunRow /\ row.workflow = run[r].workflow /\ run' = [run EXCEPT ![r] = row]
  BY <1>1 DEF RunRow, GhTypes
<1> HIDE DEF row
<1>3. /\ run' \in [Run -> RunRow \cup {None}] /\ run'[r] = row /\ row # None
      /\ \A x \in Run \ {r} : run'[x] = run[x]
  BY <1>2, RunWrite
<1>4. GhTypes'
  BY <1>3 DEF GhTypes
<1> QED BY <1>2, <1>3, <1>4 DEF Grows, Closed

LEMMA GhPredict ==
    ASSUME Ready, NEW q \in Request, Predict(q)
    PROVE  Keeps(q)
<1> DEFINE r == req[q].run
<1>1. req[q].pc = "predict" /\ UNCHANGED <<wsVars, connection, execution, link, revived, posted>>
  BY DEF Predict, At
<1>2. /\ r \in Run /\ run[r] # None /\ link[r] # None
  BY <1>1 DEF Ready, GhInv, GhRequests, OfRun, GhPc, Making, Predicting, Linking
<1>3. PICK status \in {"awaiting_approval", "failed"} :
         /\ run' = [run EXCEPT ![r].status = status]
         /\ \/ /\ status = "awaiting_approval" /\ Send(run[r].owner, "ready")
               /\ Goto(q, [req[q] EXCEPT !.pc = "ready"])
            \/ status = "failed" /\ Finish(q) /\ UNCHANGED notices
  BY DEF Predict
<1>4. GhTypes' /\ Grows /\ run'[r] # None
  BY <1>1, <1>2, <1>3, StatusWrite DEF Ready, GhInv
<1>5. /\ Shape' /\ req'[q].pc \in GhPc \cup {"done"} /\ OfRun(q)'
      /\ \A v \in Request \ {q} : req'[v] = req[v]
      /\ \A x \in Run, e \in 0..ReviveCap : Reports(q, x, e)' => Reports(q, x, e)
  <2>1. CASE Finish(q)
    BY <1>1, <2>1, Over
  <2>2. CASE Goto(q, [req[q] EXCEPT !.pc = "ready"])
    <3>1. "ready" \in Predicting /\ req[q].pc \in Predicting
      BY <1>1 DEF Predicting, Making
    <3>2. /\ Shape' /\ req'[q] \in Delivery /\ req'[q].run = r /\ req'[q].pc \in GhPc
          /\ \A v \in Request \ {q} : req'[v] = req[v]
          /\ \A x \in Run, e \in 0..ReviveCap : Reports(q, x, e)' => Reports(q, x, e)
      BY <1>1, <2>2, <3>1, GoesOn
    <3>3. OfRun(q)'
      BY <1>1, <1>2, <1>4, <3>2, Delivered
    <3> QED BY <3>2, <3>3
  <2> QED BY <1>3, <2>1, <2>2
<1>6. notices' \subseteq Notices
  <2>1. run[r].owner \in User
    BY <1>2 DEF RunRow, Ready, GhInv, GhTypes
  <2>2. CASE Send(run[r].owner, "ready")
    BY <2>1, <2>2, SendKeeps DEF Ready, Notices
  <2> QED BY <1>3, <2>2 DEF Ready, OaInv, Notices
<1> QED BY <1>1, <1>4, <1>5, <1>6, Steps

\* A write of a link that is there, at the end of its request.
LEMMA LinkEnds ==
    ASSUME Ready, NEW q \in Request, NEW r \in Run, NEW row \in LinkRow,
           link' = [link EXCEPT ![r] = row], Finish(q),
           UNCHANGED <<wsVars, oauthVars, run, execution, revived, posted>>
    PROVE  Keeps(q)
<1>1. /\ link' \in [Run -> LinkRow \cup {None}] /\ link'[r] # None
      /\ \A x \in Run \ {r} : link'[x] = link[x]
  BY LinkWrite DEF Ready, GhInv
<1>2. GhTypes'
  BY <1>1 DEF Ready, GhInv, GhTypes
<1>3. Grows
  BY <1>1 DEF Grows, Closed
<1>4. notices' \subseteq Notices /\ UNCHANGED <<wsVars, connection, posted>>
  BY DEF Ready, OaInv, oauthVars, Notices
<1> QED BY <1>2, <1>3, <1>4, Over, Steps

LEMMA GhSaveReady ==
    ASSUME Ready, NEW q \in Request, SaveReady(q)
    PROVE  Keeps(q)
<1> DEFINE r == req[q].run
           row == [link[r] EXCEPT !.checkRun = TRUE]
<1>1. /\ req[q].pc = "ready_ids" /\ link' = [link EXCEPT ![r] = row] /\ Finish(q)
      /\ UNCHANGED <<wsVars, oauthVars, run, execution, revived, posted>>
  BY DEF SaveReady, At
<1>2. r \in Run /\ link[r] \in LinkRow
  BY <1>1 DEF Ready, GhInv, GhTypes, GhRequests, OfRun, GhPc, Predicting, Linking
<1>3. row \in LinkRow
  BY <1>2 DEF LinkRow
<1> HIDE DEF row
<1> QED BY <1>1, <1>2, <1>3, LinkEnds

-----------------------------------------------------------------------------
(* The workflow of a run.                                                  *)

\* A request that carries a run that is there, and the answer it was told.
LEMMA Carries ==
    ASSUME Ready, NEW q \in Request, NEW r \in Run, NEW x, Goto(q, x), UNCHANGED posted,
           x.pc \in Running, x.run = r, run'[r] # None,
           x.pc \in {"started", "sync"} => x.told \in {"none", "running", "succeeded", "failed"}
    PROVE  /\ Shape' /\ req'[q].pc \in GhPc \cup {"done"} /\ OfRun(q)'
           /\ \A v \in Request \ {q} : req'[v] = req[v]
           /\ \A y \in Run, e \in 0..ReviveCap : Reports(q, y, e)' => Reports(q, y, e)
<1>1. Shape' /\ req'[q] = x /\ \A v \in Request \ {q} : req'[v] = req[v]
  BY Moves DEF Ready
<1>2. OfRun(q)'
  BY <1>1 DEF OfRun, GhPc, Making, Predicting, Linking, Running, Reporting
<1>3. x.pc \in GhPc /\ x.pc \notin {"terminal", "post"}
  BY DEF GhPc, Running
<1> QED BY <1>1, <1>2, <1>3 DEF Reports

LEMMA GhStartChecked ==
    ASSUME Ready, NEW q \in Request, NEW r \in Run, StartChecked(q, r)
    PROVE  Keeps(q)
<1>1. /\ run[r] # None /\ Goto(q, [pc |-> "launch", run |-> r])
      /\ UNCHANGED <<wsVars, oauthVars, ghVars>> /\ UNCHANGED <<run, posted>>
  BY DEF StartChecked, ghVars
<1> DEFINE x == [pc |-> "launch", run |-> r]
<1>2. x.pc \in Running /\ x.run = r /\ x.pc \notin {"started", "sync"}
  BY DEF Running
<1> HIDE DEF x
<1>3. Goto(q, x)
  BY <1>1 DEF x
<1> QED BY <1>1, <1>2, <1>3, Carries, Stays

LEMMA GhSyncDescribe ==
    ASSUME Ready, NEW q \in Request, NEW r \in Run, SyncDescribe(q, r)
    PROVE  Keeps(q)
<1> DEFINE x == [pc |-> "sync", run |-> r, told |-> execution[r]]
<1>1. /\ run[r] # None /\ Goto(q, x)
      /\ UNCHANGED <<wsVars, oauthVars, ghVars>> /\ UNCHANGED <<run, posted>>
  BY DEF SyncDescribe, ghVars
<1>2. /\ x.pc \in Running /\ x.run = r
      /\ x.told \in {"none", "running", "succeeded", "failed"}
  BY DEF Running, Ready, GhInv, GhTypes
<1> HIDE DEF x
<1> QED BY <1>1, <1>2, Carries, Stays

\* The execution of r moves, and a request with it.
LEMMA ExecutionWrite ==
    ASSUME GhInv, NEW r \in Run, NEW e \in {"none", "running", "succeeded", "failed"},
           execution' = [execution EXCEPT ![r] = e], UNCHANGED <<run, link, revived, posted>>
    PROVE  GhTypes' /\ Grows
<1>1. GhTypes'
  BY DEF GhInv, GhTypes
<1> QED BY <1>1 DEF Grows, Closed

LEMMA GhStartExecution ==
    ASSUME Ready, NEW q \in Request, StartExecution(q)
    PROVE  Keeps(q)
<1> DEFINE r == req[q].run
           e == IF execution[r] = "none" THEN "running" ELSE execution[r]
<1>1. /\ req[q].pc = "launch" /\ execution' = [execution EXCEPT ![r] = e]
      /\ UNCHANGED <<wsVars, oauthVars, run, link, revived, posted>>
  BY DEF StartExecution, At
<1>2. r \in Run /\ run[r] # None
  BY <1>1 DEF Ready, GhInv, GhRequests, OfRun, GhPc, Running
<1>3. e \in {"none", "running", "succeeded", "failed"}
  BY <1>2 DEF Ready, GhInv, GhTypes
<1> HIDE DEF e
<1>4. GhTypes' /\ Grows /\ execution'[r] = e
  BY <1>1, <1>2, <1>3, ExecutionWrite DEF Ready, GhInv, GhTypes
<1>5. PICK told \in {e, "running"} : Goto(q, [pc |-> "started", run |-> r, told |-> told])
  BY <1>4 DEF StartExecution
<1> DEFINE x == [pc |-> "started", run |-> r, told |-> told]
<1>6. /\ x.pc \in Running /\ x.run = r
      /\ x.told \in {"none", "running", "succeeded", "failed"}
  BY <1>3 DEF Running
<1> HIDE DEF x
<1>7. /\ Shape' /\ req'[q].pc \in GhPc \cup {"done"} /\ OfRun(q)'
      /\ \A v \in Request \ {q} : req'[v] = req[v]
      /\ \A y \in Run, n \in 0..ReviveCap : Reports(q, y, n)' => Reports(q, y, n)
  <2>1. Goto(q, x)
    BY <1>5 DEF x
  <2> QED BY <1>1, <1>2, <1>6, <2>1, Carries
<1>8. notices' \subseteq Notices /\ UNCHANGED <<wsVars, connection, posted>>
  BY <1>1 DEF Ready, OaInv, oauthVars, Notices
<1> QED BY <1>4, <1>7, <1>8, Steps

LEMMA GhAbortStop ==
    ASSUME Ready, NEW q \in Request, NEW r \in Run, AbortStop(q, r)
    PROVE  Keeps(q)
<1> DEFINE e == IF execution[r] = "running" THEN "failed" ELSE execution[r]
           x == [pc |-> "abort", run |-> r]
<1>1. /\ run[r] # None /\ execution' = [execution EXCEPT ![r] = e] /\ Goto(q, x)
      /\ UNCHANGED <<wsVars, oauthVars, run, link, revived, posted>>
  BY DEF AbortStop
<1>2. e \in {"none", "running", "succeeded", "failed"}
  BY DEF Ready, GhInv, GhTypes
<1>3. x.pc \in Running /\ x.run = r /\ x.pc \notin {"started", "sync"}
  BY DEF Running
<1> HIDE DEF e, x
<1>4. GhTypes' /\ Grows
  BY <1>1, <1>2, ExecutionWrite DEF Ready
<1>5. notices' \subseteq Notices /\ UNCHANGED <<wsVars, connection, posted>>
  BY <1>1 DEF Ready, OaInv, oauthVars, Notices
<1> QED BY <1>1, <1>3, <1>4, <1>5, Carries, Steps

LEMMA GhExecutionEnds ==
    ASSUME Ready, NEW r \in Run, ExecutionEnds(r)
    PROVE  GhInv' /\ OaInv'
<1>1. UNCHANGED <<req, oauthVars, run, link, revived, posted>>
  BY DEF ExecutionEnds
<1>2. PICK e \in {"succeeded", "failed"} : execution' = [execution EXCEPT ![r] = e]
  BY DEF ExecutionEnds
<1>3. GhTypes' /\ Grows
  BY <1>1, <1>2, ExecutionWrite DEF Ready
<1>4. \A v \in Request : OfRun(v)'
  BY <1>1, <1>3, OthersOfRun DEF Ready
<1>5. OnePost'
  BY <1>1 DEF Ready, GhInv, OnePost, Reports, Closed
<1>6. OaInv'
  BY <1>1 DEF Ready, OaInv, oauthVars
<1> QED BY <1>3, <1>4, <1>5, <1>6 DEF GhInv, GhRequests

\* A write of the copy of a workflow's status: what was found stays found,
\* and where it is terminal, its end is.
LEMMA CopyWrite ==
    ASSUME GhInv, NEW r \in Run, run[r] # None,
           NEW status \in {"pending", "failed", "awaiting_approval", "running", "completed"},
           NEW copy \in {"running", "ended"},
           run' = [run EXCEPT ![r].workflow = copy, ![r].status = status],
           IF run[r].workflow = "ended" /\ copy = "running"
             THEN revived[r] < ReviveCap /\ revived' = [revived EXCEPT ![r] = @ + 1]
             ELSE UNCHANGED revived,
           UNCHANGED <<execution, link, posted>>
    PROVE  /\ GhTypes' /\ Grows /\ run'[r] # None
           /\ copy = "ended" => Closed(r, revived[r])' /\ revived' = revived
<1> DEFINE row == [run[r] EXCEPT !.workflow = copy, !.status = status]
<1>1. run[r] \in RunRow
  BY DEF GhInv, GhTypes
<1>2. row \in RunRow /\ row.workflow = copy /\ run' = [run EXCEPT ![r] = row]
  BY <1>1 DEF RunRow, GhInv, GhTypes
<1> HIDE DEF row
<1>3. /\ run' \in [Run -> RunRow \cup {None}] /\ run'[r] = row /\ row # None
      /\ \A x \in Run \ {r} : run'[x] = run[x]
  BY <1>2, RunWrite DEF GhInv
<1>4. /\ revived' \in [Run -> 0..ReviveCap] /\ revived'[r] \in Nat /\ revived[r] \in Nat
      /\ \A x \in Run \ {r} : revived'[x] = revived[x]
      /\ \/ revived'[r] = revived[r] /\ ~(run[r].workflow = "ended" /\ copy = "running")
         \/ revived'[r] = revived[r] + 1
  BY DEF GhInv, GhTypes, ReviveCap
<1>5. GhTypes'
  BY <1>3, <1>4 DEF GhInv, GhTypes
<1>6. ASSUME NEW x \in Run, NEW e \in 0..ReviveCap, Closed(x, e) PROVE Closed(x, e)'
  <2>1. CASE x # r
    BY <1>3, <1>4, <1>6, <2>1 DEF Closed
  <2>2. CASE x = r
    <3>1. CASE revived'[r] = revived[r] + 1
      BY <1>4, <1>6, <2>2, <3>1 DEF Closed, ReviveCap
    <3>2. CASE revived'[r] = revived[r] /\ ~(run[r].workflow = "ended" /\ copy = "running")
      BY <1>2, <1>3, <1>6, <2>2, <3>2 DEF Closed
    <3> QED BY <1>4, <3>1, <3>2
  <2> QED BY <2>1, <2>2
<1>7. Grows
  BY <1>3, <1>6 DEF Grows
<1>8. copy = "ended" => Closed(r, revived[r])' /\ revived' = revived
  BY <1>2, <1>3 DEF Closed
<1> QED BY <1>3, <1>5, <1>7, <1>8

\* A status is one of a run's whatever was settled.
LEMMA SettledStatus ==
    ASSUME GhTypes, NEW r \in Run, run[r] # None, NEW e
    PROVE  Settle(r, e) \in {"pending", "failed", "awaiting_approval", "running", "completed"}
<1>1. run[r] \in RunRow
  BY DEF GhTypes
<1>2. run[r].status \in {"pending", "failed", "awaiting_approval", "running", "completed"}
  BY <1>1 DEF RunRow
<1> QED BY <1>2 DEF Settle

LEMMA GhStartRecord ==
    ASSUME Ready, NEW q \in Request, StartRecord(q)
    PROVE  Keeps(q)
<1> DEFINE r == req[q].run
           status == IF run[r].status \in {"pending", "awaiting_approval"}
                       THEN "running" ELSE run[r].status
           copy == Copy(req[q].told)
<1>1. /\ req[q].pc = "started" /\ Finish(q) /\ Send(run[r].owner, "started")
      /\ UNCHANGED <<wsVars, connection, execution, link, posted>>
      /\ Record(r, req[q].told, status)
  BY DEF StartRecord, At
<1>2. r \in Run /\ run[r] # None
  BY <1>1 DEF Ready, GhInv, GhRequests, OfRun, GhPc, Running
<1>3. run[r] \in RunRow
  BY <1>2 DEF Ready, GhInv, GhTypes
<1>4. status \in {"pending", "failed", "awaiting_approval", "running", "completed"}
  BY <1>3 DEF RunRow
<1>5. /\ copy \in {"running", "ended"} /\ (copy = "running" <=> req[q].told = "running")
      /\ run' = [run EXCEPT ![r].workflow = copy, ![r].status = status]
      /\ IF run[r].workflow = "ended" /\ copy = "running"
           THEN revived[r] < ReviveCap /\ revived' = [revived EXCEPT ![r] = @ + 1]
           ELSE UNCHANGED revived
  BY <1>1 DEF Copy, Record
<1> HIDE DEF status, copy
<1>6. GhTypes' /\ Grows
  BY <1>1, <1>2, <1>4, <1>5, CopyWrite DEF Ready
<1>7. notices' \subseteq Notices
  BY <1>1, <1>3, SendKeeps DEF Ready, Notices, RunRow
<1> QED BY <1>1, <1>6, <1>7, Over, Steps

\* Whoever finds the end of a run writes it, and may then report it; a sync
\* only if nobody wrote it before.
LEMMA GhSettle ==
    ASSUME Ready, NEW q \in Request, NEW r \in Run, run[r] # None, req[q].pc \in Running,
           GhTypes', Grows, run'[r] # None, NEW by \in {"sync", "abort"}, Notify(q, r, by),
           revived' = revived,
           by = "sync" => Closed(r, revived[r])' /\ run[r].workflow # "ended",
           UNCHANGED <<wsVars, connection, execution, link, posted>>
    PROVE  Keeps(q)
<1> DEFINE x == [pc |-> "terminal", run |-> r, by |-> by, found |-> revived[r]]
<1>1. revived[r] \in 0..ReviveCap /\ revived[r] \in Nat
  BY DEF Ready, GhInv, GhTypes, ReviveCap
<1>2. /\ x \in Report /\ x.pc = "terminal" /\ x.run = r /\ x.by = by /\ x.found = revived[r]
      /\ Goto(q, x)
  BY <1>1 DEF Report, Reporting, Notify
<1> HIDE DEF x
<1>3. Shape' /\ req'[q] = x /\ \A v \in Request \ {q} : req'[v] = req[v]
  BY <1>2, Moves DEF Ready
<1>4. notices' \subseteq Notices
  BY SendKeeps DEF Ready, GhInv, GhTypes, Notices, Notify, RunRow
<1>5. OfRun(q)'
  BY <1>2, <1>3 DEF OfRun, GhPc, Making, Predicting, Linking, Running, Reporting
<1>6. \A v \in Request : OfRun(v)'
  BY <1>3, <1>5, OthersOfRun DEF Ready
<1>7. OnePost'
  <2>1. \A v \in Request, y \in Run, e \in 0..ReviveCap :
           Reports(v, y, e)' =>
              \/ Reports(v, y, e)
              \/ v = q /\ y = r /\ e = revived[r] /\ by = "sync"
    BY <1>2, <1>3 DEF Reports
  <2>2. by = "sync" => \A v \in Request : ~Reports(v, r, revived[r])
    <3>1. ~(revived[r] < revived[r])
      BY <1>1
    <3> QED BY <1>1, <3>1 DEF Ready, GhInv, OnePost, Closed
  <2>3. \A y \in Run, e \in 0..ReviveCap, v \in Request : Reports(v, y, e)' => Closed(y, e)'
    BY <2>1 DEF Ready, GhInv, OnePost, Grows
  <2>4. \A y \in Run, e \in 0..ReviveCap, u, v \in Request :
           Reports(u, y, e)' /\ Reports(v, y, e)' => v = u
    BY <2>1, <2>2 DEF Ready, GhInv, OnePost
  <2> QED BY <2>3, <2>4 DEF OnePost
<1>8. req'[q].pc \in GhPc
  BY <1>2, <1>3 DEF GhPc, Reporting
<1> QED BY <1>3, <1>4, <1>6, <1>7, <1>8 DEF Keeps, GhInv, GhRequests

LEMMA GhSync ==
    ASSUME Ready, NEW q \in Request, SyncCommit(q)
    PROVE  Keeps(q)
<1>0. PICK r \in Run : r = req[q].run /\ run[r] # None /\ req[q].pc \in Running
  BY DEF SyncCommit, At, Ready, GhInv, GhRequests, OfRun, GhPc, Running
<1> DEFINE status == Settle(r, req[q].told)
           copy == Copy(req[q].told)
<1>1. /\ req[q].pc = "sync" /\ UNCHANGED <<wsVars, connection, execution, link, posted>>
      /\ Record(r, req[q].told, status)
      /\ \/ Finish(q) /\ UNCHANGED notices
         \/ Notify(q, r, "sync") /\ req[q].told # "running" /\ run[r].workflow # "ended"
  BY <1>0 DEF SyncCommit, At
<1>2. status \in {"pending", "failed", "awaiting_approval", "running", "completed"}
  BY <1>0, SettledStatus DEF Ready, GhInv
<1>3. /\ copy \in {"running", "ended"} /\ (copy = "running" <=> req[q].told = "running")
      /\ run' = [run EXCEPT ![r].workflow = copy, ![r].status = status]
      /\ IF run[r].workflow = "ended" /\ copy = "running"
           THEN revived[r] < ReviveCap /\ revived' = [revived EXCEPT ![r] = @ + 1]
           ELSE UNCHANGED revived
  BY <1>1 DEF Copy, Record
<1> HIDE DEF status, copy
<1>4. /\ GhTypes' /\ Grows /\ run'[r] # None
      /\ copy = "ended" => Closed(r, revived[r])' /\ revived' = revived
  BY <1>0, <1>1, <1>2, <1>3, CopyWrite DEF Ready
<1>5. CASE Finish(q) /\ UNCHANGED notices
  BY <1>1, <1>4, <1>5, Over, Steps DEF Ready, OaInv, Notices
<1>6. CASE Notify(q, r, "sync") /\ req[q].told # "running" /\ run[r].workflow # "ended"
  BY <1>0, <1>1, <1>3, <1>4, <1>6, GhSettle
<1> QED BY <1>1, <1>5, <1>6

LEMMA GhAbort ==
    ASSUME Ready, NEW q \in Request, AbortCommit(q)
    PROVE  Keeps(q)
<1> DEFINE r == req[q].run
           status == IF run[r].status = "running" THEN "failed" ELSE run[r].status
<1>1. /\ req[q].pc = "abort" /\ UNCHANGED <<wsVars, connection, execution, link, revived, posted>>
      /\ run' = [run EXCEPT ![r].workflow = "ended", ![r].status = status]
      /\ \/ Finish(q) /\ UNCHANGED notices
         \/ Notify(q, r, "abort")
  BY DEF AbortCommit, At
<1>2. r \in Run /\ run[r] # None /\ req[q].pc \in Running
  BY <1>1 DEF Ready, GhInv, GhRequests, OfRun, GhPc, Running
<1>3. run[r] \in RunRow
  BY <1>2 DEF Ready, GhInv, GhTypes
<1>4. status \in {"pending", "failed", "awaiting_approval", "running", "completed"}
  BY <1>3 DEF RunRow
<1> HIDE DEF status
<1>5. GhTypes' /\ Grows /\ run'[r] # None
  BY <1>1, <1>2, <1>4, CopyWrite DEF Ready
<1>6. CASE Finish(q) /\ UNCHANGED notices
  BY <1>1, <1>5, <1>6, Over, Steps DEF Ready, OaInv, Notices
<1>7. CASE Notify(q, r, "abort")
  BY <1>1, <1>2, <1>5, <1>7, GhSettle
<1> QED BY <1>1, <1>6, <1>7

-----------------------------------------------------------------------------
(* The report of its end.                                                  *)

\* A report that goes on.
LEMMA ReportsOn ==
    ASSUME Ready, NEW q \in Request, req[q].pc \in Reporting, NEW pc \in Reporting,
           Goto(q, [req[q] EXCEPT !.pc = pc])
    PROVE  /\ Shape' /\ req'[q] \in Report /\ req'[q].pc = pc /\ req'[q].run = req[q].run
           /\ req'[q].by = req[q].by /\ req'[q].found = req[q].found
           /\ req'[q].pc \in GhPc /\ req[q].run \in Run /\ run[req[q].run] # None
           /\ \A v \in Request \ {q} : req'[v] = req[v]
<1>1. OfRun(q) /\ req[q] \in Report /\ req[q].run \in Run /\ run[req[q].run] # None
  BY DEF Ready, GhInv, GhRequests, OfRun, GhPc, Reporting
<1>2. /\ Shape' /\ req'[q] = [req[q] EXCEPT !.pc = pc]
      /\ \A v \in Request \ {q} : req'[v] = req[v]
  BY Moves DEF Ready
<1>3. /\ req'[q] \in Report /\ req'[q].pc = pc /\ req'[q].run = req[q].run
      /\ req'[q].by = req[q].by /\ req'[q].found = req[q].found
  BY <1>1, <1>2, ReportMoves
<1> QED BY <1>1, <1>2, <1>3 DEF GhPc

LEMMA GhReadTerminal ==
    ASSUME Ready, NEW q \in Request, ReadTerminal(q)
    PROVE  Keeps(q)
<1>1. /\ req[q].pc = "terminal" /\ UNCHANGED <<wsVars, oauthVars, ghVars>>
      /\ UNCHANGED <<run, link, posted>>
  BY DEF ReadTerminal, At, ghVars
<1>2. CASE Finish(q)
  BY <1>1, <1>2, GhEnds
<1>3. CASE Goto(q, [req[q] EXCEPT !.pc = "post"]) /\ link[req[q].run] # None
  <2>1. /\ Shape' /\ req'[q] \in Report /\ req'[q].pc = "post" /\ req'[q].run = req[q].run
        /\ req'[q].by = req[q].by /\ req'[q].found = req[q].found
        /\ req'[q].pc \in GhPc /\ req[q].run \in Run /\ run[req[q].run] # None
        /\ \A v \in Request \ {q} : req'[v] = req[v]
    BY <1>1, <1>3, ReportsOn DEF Reporting
  <2>2. OfRun(q)'
    BY <1>1, <1>3, <2>1
       DEF OfRun, GhPc, Making, Predicting, Linking, Running, Reporting
  <2>3. \A r \in Run, e \in 0..ReviveCap : Reports(q, r, e)' => Reports(q, r, e)
    BY <1>1, <2>1 DEF Reports
  <2> QED BY <1>1, <2>1, <2>2, <2>3, Stays
<1> QED BY <1>2, <1>3 DEF ReadTerminal

LEMMA GhPost ==
    ASSUME Ready, NEW q \in Request, PostTerminal(q)
    PROVE  Keeps(q)
<1> DEFINE r == req[q].run
           f == req[q].found
<1>1. /\ req[q].pc = "post"
      /\ posted' = IF req[q].by = "sync"
                     THEN [posted EXCEPT ![r] = posted[r] \cup {<<q, f>>}] ELSE posted
      /\ Goto(q, [req[q] EXCEPT !.pc = "record"])
      /\ UNCHANGED <<wsVars, oauthVars, run, execution, link, revived>>
  BY DEF PostTerminal, At
<1>2. /\ Shape' /\ req'[q] \in Report /\ req'[q].pc = "record" /\ req'[q].run = r
      /\ req'[q].pc \in GhPc /\ r \in Run /\ run[r] # None
      /\ \A v \in Request \ {q} : req'[v] = req[v]
  BY <1>1, ReportsOn DEF Reporting
<1>3. f \in 0..ReviveCap /\ link[r] # None
  BY <1>1 DEF Ready, GhInv, GhRequests, OfRun, Reporting, Report, Linking
<1>4. posted' \in [Run -> SUBSET (Request \X (0..ReviveCap))]
  BY <1>1, <1>2, <1>3 DEF Ready, GhInv, GhTypes
<1>5. GhTypes'
  BY <1>1, <1>4 DEF Ready, GhInv, GhTypes
<1>6. Grows
  BY <1>1 DEF Grows, Closed
<1>7. OfRun(q)'
  BY <1>1, <1>2, <1>3 DEF OfRun, GhPc, Making, Predicting, Linking, Running, Reporting
<1>8. \A v \in Request : OfRun(v)'
  BY <1>2, <1>6, <1>7, OthersOfRun DEF Ready
<1>9. OnePost'
  <2>1. \A x \in Run : posted'[x] \subseteq
           posted[x] \cup (IF x = r /\ req[q].by = "sync" THEN {<<q, f>>} ELSE {})
    BY <1>1 DEF Ready, GhInv, GhTypes
  <2>2. ASSUME NEW v \in Request, NEW x \in Run, NEW e \in 0..ReviveCap, Reports(v, x, e)'
        PROVE  Reports(v, x, e)
    <3>1. CASE <<v, e>> \in posted[x]
      BY <3>1 DEF Reports
    <3>2. CASE <<v, e>> \in posted'[x] /\ <<v, e>> \notin posted[x]
      <4>1. v = q /\ e = f /\ x = r /\ req[q].by = "sync"
        BY <2>1, <3>2
      <4> QED BY <1>1, <4>1 DEF Reports
    <3>3. CASE <<v, e>> \notin posted'[x]
      BY <1>2, <2>2, <3>3 DEF Reports
    <3> QED BY <3>1, <3>2, <3>3
  <2> QED BY <1>6, <2>2 DEF Ready, GhInv, OnePost, Grows
<1>10. notices' \subseteq Notices /\ UNCHANGED <<wsVars, connection>>
  BY <1>1 DEF Ready, OaInv, oauthVars, Notices
<1> QED BY <1>2, <1>5, <1>8, <1>9, <1>10 DEF Keeps, GhInv, GhRequests

LEMMA GhRecord ==
    ASSUME Ready, NEW q \in Request, RecordTerminal(q)
    PROVE  Keeps(q)
<1> DEFINE r == req[q].run
           row == [link[r] EXCEPT !.terminalPosted = TRUE]
<1>1. /\ req[q].pc = "record" /\ link' = [link EXCEPT ![r] = row] /\ Finish(q)
      /\ UNCHANGED <<wsVars, oauthVars, run, execution, revived, posted>>
  BY DEF RecordTerminal, At
<1>2. r \in Run /\ link[r] \in LinkRow
  BY <1>1 DEF Ready, GhInv, GhTypes, GhRequests, OfRun, GhPc, Reporting, Linking
<1>3. row \in LinkRow
  BY <1>2 DEF LinkRow
<1> HIDE DEF row
<1> QED BY <1>1, <1>2, <1>3, LinkEnds

LEMMA GhStep ==
    ASSUME Ready, WsTypes, NEW q \in Request, GithubRequest(q)
    PROVE  Keeps(q)
<1>1. ASSUME NEW c \in Commit, ReceiveWebhook(q, c) PROVE Keeps(q)
  BY <1>1, GhReceive
<1>2. CASE GithubFails(q)
  BY <1>2, GhEnds DEF GithubFails
<1>3. ASSUME NEW r \in Run, StartChecked(q, r) \/ SyncDescribe(q, r) \/ AbortStop(q, r)
      PROVE  Keeps(q)
  BY <1>3, GhStartChecked, GhSyncDescribe, GhAbortStop
<1> QED
  BY <1>1, <1>2, <1>3, GhDeliver, GhCommitLink, GhDiscover, GhPredict, GhPostReady,
     GhSaveReady, GhStartExecution, GhStartRecord, GhSync, GhAbort, GhReadTerminal, GhPost,
     GhRecord DEF GithubRequest

-----------------------------------------------------------------------------
(* The invariant.                                                          *)

LEMMA InvInit == Init => Inv
<1> SUFFICES ASSUME Init PROVE Inv
  OBVIOUS
<1>1. Shape /\ \A q \in Request : req[q].pc = "idle"
  BY DEF Init, Idle, Shape
<1>2. WsInv
  <2>1. \A w \in Workspace : Exists(w) => workspace[w] \in WorkspaceRow
    BY DEF Init, WorkspaceInit, Exists
  <2>2. member \in [Workspace -> [User -> MemberRole]] /\ Headed
    BY <2>1 DEF Init, WorkspaceInit, MemberRole, Headed, Owned, WorkspaceRow
  <2>3. WsTypes /\ Unique
    BY <2>2 DEF Init, WorkspaceInit, WsTypes, Unique
  <2>4. Accepted
    BY DEF Init, WorkspaceInit, Accepted
  <2>5. WsRequests
    BY <1>1 DEF WsRequests, WsOf
  <2> QED BY <2>2, <2>3, <2>4, <2>5 DEF WsInv
<1>3. OaInv
  BY <1>1 DEF Init, OAuthInit, OaInv
<1>4. GhInv
  <2>1. GhTypes
    <3>1. RunInit \subseteq RunRow /\ \A c \in Commit : NewLink(c) \in LinkRow
      BY DEF RunInit, NewLink, LinkRow
    <3> QED BY <3>1 DEF Init, GhTypes, ReviveCap
  <2>2. GhRequests
    BY <1>1 DEF GhRequests, OfRun, GhPc, Making, Predicting, Linking, Running, Reporting
  <2>3. OnePost
    BY <1>1 DEF Init, OnePost, Reports
  <2> QED BY <2>1, <2>2, <2>3 DEF GhInv
<1> QED BY <1>1, <1>2, <1>3, <1>4 DEF Inv

LEMMA InvStep == Inv /\ [Next]_vars => Inv'
<1> SUFFICES ASSUME Inv, [Next]_vars PROVE Inv'
  OBVIOUS
<1>1. Ready /\ WsTypes /\ WsInv
  BY DEF Inv, Ready, WsInv
<1>2. ASSUME NEW q \in Request, WorkspaceRequest(q), UNCHANGED <<oauthVars, ghVars>>
      PROVE  Inv'
  <2>1. /\ WsInv' /\ Shape' /\ req'[q].pc \in WsPc \cup {"done"}
        /\ \A v \in Request \ {q} : req'[v] = req[v]
    BY <1>2, WsStep DEF Inv
  <2>2. req'[q].pc # "exchange" /\ req'[q].pc \notin GhPc
    BY <2>1 DEF WsPc, GhPc, Making, Predicting, Running, Reporting
  <2> QED BY <1>2, <2>1, <2>2, OaOther, GhOther DEF Inv
<1>3. ASSUME NEW q \in Request, OAuthRequest(q), UNCHANGED ghVars
      PROVE  Inv'
  <2>1. /\ OaInv' /\ Shape' /\ req'[q].pc \in {"exchange", "done"} /\ UNCHANGED wsVars
        /\ \A v \in Request \ {q} : req'[v] = req[v]
    BY <1>3, OaStep DEF Inv
  <2>2. req'[q].pc \notin WsPc /\ req'[q].pc \notin GhPc
    BY <2>1 DEF WsPc, GhPc, Making, Predicting, Running, Reporting
  <2> QED BY <1>3, <2>1, <2>2, WsOther, GhOther DEF Inv
<1>4. ASSUME NEW q \in Request, GithubRequest(q) PROVE Inv'
  <2>1. Keeps(q)
    BY <1>1, <1>4, GhStep
  <2>2. req'[q].pc \notin WsPc /\ req'[q].pc # "exchange"
    BY <2>1 DEF Keeps, WsPc, GhPc, Making, Predicting, Running, Reporting
  <2> QED BY <2>1, <2>2, WsOther, OaNotice DEF Inv, Keeps, Notices
<1>5. ASSUME NEW q \in Request, Abandon(q), UNCHANGED <<oauthVars, ghVars>>
      PROVE  Inv'
  <2>1. /\ Shape' /\ req'[q].pc = "done" /\ UNCHANGED wsVars
        /\ \A v \in Request \ {q} : req'[v] = req[v]
    BY <1>5, Ends DEF Inv, Abandon
  <2>2. req'[q].pc \notin WsPc /\ req'[q].pc \notin GhPc
    BY <2>1 DEF WsPc, GhPc, Making, Predicting, Running, Reporting
  <2> QED BY <1>5, <2>1, <2>2, WsOther, OaOther, GhOther DEF Inv
<1>6. ASSUME NEW i \in Invite, Expire(i), UNCHANGED <<oauthVars, ghVars>>
      PROVE  Inv'
  <2>1. WsInv'
    BY <1>1, <1>6, WsExpire
  <2>2. UNCHANGED <<req, oauthVars, ghVars>>
    BY <1>6 DEF Expire
  <2>3. Shape' /\ OaInv'
    BY <2>2 DEF Inv, Shape, OaInv, oauthVars
  <2>4. GhInv'
    BY <2>2
       DEF Inv, GhInv, ghVars, GhTypes, GhRequests, OfRun, OnePost, Reports, Closed
  <2> QED BY <2>1, <2>3, <2>4 DEF Inv
<1>7. ASSUME NEW r \in Run, ExecutionEnds(r) PROVE Inv'
  <2>1. GhInv' /\ OaInv'
    BY <1>1, <1>7, GhExecutionEnds
  <2>2. UNCHANGED <<req, wsVars>>
    BY <1>7 DEF ExecutionEnds
  <2>3. Shape' /\ WsInv'
    BY <2>2
       DEF Inv, Shape, WsInv, wsVars, WsTypes, Unique, Headed, Accepted, Kept, Exists, Invited,
           Insertable, NameFree, RepoAvailable, Owned, WsRequests, WsOf
  <2> QED BY <2>1, <2>3 DEF Inv
<1>8. CASE UNCHANGED vars
  <2>1. UNCHANGED <<req, wsVars, oauthVars, ghVars>>
    BY <1>8 DEF vars
  <2>2. Shape' /\ WsInv' /\ OaInv'
    BY <2>1
       DEF Inv, Shape, WsInv, wsVars, WsTypes, Unique, Headed, Accepted, Kept, Exists, Invited,
           Insertable, NameFree, RepoAvailable, Owned, WsRequests, WsOf, OaInv, oauthVars
  <2>3. GhInv'
    BY <2>1
       DEF Inv, GhInv, ghVars, GhTypes, GhRequests, OfRun, OnePost, Reports, Closed
  <2> QED BY <2>2, <2>3 DEF Inv
<1> QED BY <1>2, <1>3, <1>4, <1>5, <1>6, <1>7, <1>8 DEF Next

LEMMA Inductive == Spec => []Inv
  BY InvInit, InvStep, PTL DEF Spec

(* Every row is well formed, an owner has no two workspaces of one name, a *)
(* repository no two workspaces, and every workspace its owner for a       *)
(* member, though the checks and the commits of two requests may cross     *)
(* (workspace_service.py).                                                 *)
THEOREM TypeCorrect == Spec => []TypeOK
<1>1. Inv => TypeOK
  BY DEF Inv, WsInv, WsTypes, Unique, Headed, OaInv, GhInv, GhTypes, TypeOK
<1> QED BY <1>1, Inductive, PTL

(* Whoever has accepted an invite was made a member, and still is one      *)
(* unless the owner removed them (accept_invite).                          *)
THEOREM Membership == Spec => []AcceptedIsMember
<1>1. Inv => AcceptedIsMember
  BY DEF Inv, WsInv, Accepted, Kept, AcceptedIsMember
<1> QED BY <1>1, Inductive, PTL

(* The link of a webhook's run is there when its prediction is reported    *)
(* (github_webhook_service.py).                                            *)
THEOREM LinkFound == Spec => []ReadyFindsLink
<1>1. Inv => ReadyFindsLink
  BY DEF Inv, GhInv, GhRequests, OfRun, Linking, ReadyFindsLink
<1> QED BY <1>1, Inductive, PTL

(* Each time the row's copy of the workflow turns terminal, one sync at    *)
(* most posts what was measured, however many are told of the end, whatever *)
(* late starts and stale syncs write between (sync_status).                *)
THEOREM OneReport == Spec => []OnePostPerEnd
<1>1. Inv => OnePostPerEnd
  <2> SUFFICES ASSUME Inv, NEW r \in Run, NEW a \in posted[r], NEW b \in posted[r], a[2] = b[2]
               PROVE  a = b
    BY DEF OnePostPerEnd
  <2>1. posted[r] \subseteq Request \X (0..ReviveCap)
    BY DEF Inv, GhInv, GhTypes
  <2>2. PICK p, q \in Request, e \in 0..ReviveCap : a = <<p, e>> /\ b = <<q, e>>
    BY <2>1
  <2>3. Reports(p, r, e) /\ Reports(q, r, e)
    BY <2>2 DEF Reports
  <2> QED BY <2>2, <2>3 DEF Inv, GhInv, OnePost
<1> QED BY <1>1, Inductive, PTL

-----------------------------------------------------------------------------
(* Who a request acts for, for any settings and requests.                 *)

Access == INSTANCE RunAccess

(* Where sessions are enforced, a request that is let through to a route   *)
(* that is not public carries a token that verifies, and lists the runs of *)
(* its owner only, whatever it asks for: no listing is unfiltered.         *)
THEOREM ListingsScoped ==
    ASSUME NEW s, NEW q, NEW asked, Access!AuthEnforced(s),
           q.route \notin Access!Public, Access!Admit(s, q).status = 200
    PROVE  /\ Access!TokenOf(q) # None /\ Access!Verified(s, Access!TokenOf(q))
           /\ Access!ListOwner(s, Access!Admit(s, q).owner, asked) = Access!TokenOf(q).sub
           /\ Access!TokenOf(q).sub # None
<1>1. Access!Admit(s, q) = Access!SessionAuth(s, q) /\ Access!SessionAuth(s, q).status = 200
  BY DEF Access!Admit, Access!Reject
<1>2. Access!TokenOf(q) # None /\ Access!Verified(s, Access!TokenOf(q))
  BY <1>1 DEF Access!SessionAuth, Access!Reject
<1>3. Access!SessionAuth(s, q) = Access!Pass(Access!TokenOf(q).sub)
  BY <1>2 DEF Access!SessionAuth
<1> QED
  BY <1>1, <1>2, <1>3 DEF Access!Pass, Access!ListOwner, Access!Verified

(* The token in the query string serves the event stream alone: on any     *)
(* other route it changes nothing.                                         *)
THEOREM QueryTokenStreamOnly ==
    ASSUME NEW s, NEW q, NEW r, q.route # "shadow_stream",
           r.route = q.route, r.header = q.header, r.key = q.key
    PROVE  Access!Admit(s, r) = Access!Admit(s, q)
<1>1. Access!TokenOf(r) = Access!TokenOf(q)
  BY DEF Access!TokenOf
<1> QED
  BY <1>1 DEF Access!Admit, Access!SessionAuth, Access!DemoApiKey
=============================================================================
