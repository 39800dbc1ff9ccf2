----------------------------- MODULE Workspaces -----------------------------
(* Workspaces, their members and their invites, as the API's handlers read *)
(* and write them (workspace_service.py, workspace_invite_service.py).  The *)
(* application's database is serializable, so a handler that reads and     *)
(* commits in one transaction is one step; one that commits twice, or      *)
(* whose retry repeats only the write, is a step per transaction.  A       *)
(* request dies where its process does, and fails where a commit fails     *)
(* (Abandon).                                                              *)
EXTENDS FiniteSets, Naturals

CONSTANTS
    Request,        \* API requests: each runs one handler, once
    User,           \* owner identities
    Workspace, Invite,
    Name,           \* workspace names
    Repo,           \* GitHub repositories
    None,           \* no row yet, no repository, nobody
    Gone            \* a row that was deleted; its id is not used again

VARIABLES
    req,            \* what each request is at, and the values it carries
    workspace,      \* workspaces
    member,         \* workspace_members: what a user is in a workspace
    invite,         \* workspace_invites
    expelled        \* history: the members that an owner removed

wsVars == <<workspace, member, invite, expelled>>

WorkspaceRow == [owner : User, name : Name, repo : Repo \cup {None}, connected : BOOLEAN]

MemberRole == {"none", "member", "owner"}

InviteRow ==
    [ws : Workspace, status : {"pending", "accepted", "revoked"}, late : BOOLEAN,
     by : User \cup {None}]

ASSUME WorkspaceAssumption ==
    /\ None # Gone
    /\ \A row \in {None, Gone} : row \notin WorkspaceRow /\ row \notin InviteRow

Exists(w) == workspace[w] \notin {None, Gone}
Invited(i) == invite[i] \notin {None, Gone}
Owned(w, u) == Exists(w) /\ workspace[w].owner = u
Accessible(w, u) == Owned(w, u) \/ (Exists(w) /\ member[w][u] # "none")

Idle == [pc |-> "idle"]
Done == [pc |-> "done"]
At(q, l) == req[q].pc = l
Finish(q) == req' = [req EXCEPT ![q] = Done]
Goto(q, r) == req' = [req EXCEPT ![q] = r]

(* One repository has at most one workspace, everybody's counted.          *)
RepoAvailable(r, w) == ~\E x \in Workspace \ {w} : r # None /\ Exists(x) /\ workspace[x].repo = r

NameFree(u, n, w) == ~\E x \in Workspace \ {w} : Owned(x, u) /\ workspace[x].name = n

(* The unique indexes: (owner, name), and repository where there is one.   *)
Insertable(row, w) == NameFree(row.owner, row.name, w) /\ RepoAvailable(row.repo, w)

-----------------------------------------------------------------------------
(* POST /workspaces: the checks, then the rows of the workspace and of its *)
(* owner in one commit, which the unique indexes may refuse.               *)
CreateWorkspace(q, w, row) ==
    /\ At(q, "idle") /\ workspace[w] = None
    /\ Insertable(row, w)
    /\ Goto(q, [pc |-> "create", ws |-> w, row |-> row])
    /\ UNCHANGED wsVars

CommitWorkspace(q) ==
    LET w == req[q].ws
        row == req[q].row
    IN  /\ At(q, "create")
        /\ workspace[w] = None /\ Insertable(row, w)
        /\ workspace' = [workspace EXCEPT ![w] = row]
        /\ member' = [member EXCEPT ![w][row.owner] = "owner"]
        /\ Finish(q)
        /\ UNCHANGED <<invite, expelled>>

(* PATCH: a rename, a (dis)connection, a repository linked or unlinked; a  *)
(* refused or failing one changes nothing.                                 *)
UpdateWorkspace(q, u, w, row) ==
    /\ At(q, "idle") /\ Owned(w, u) /\ row.owner = u
    /\ Insertable(row, w)
    /\ workspace' = [workspace EXCEPT ![w] = row]
    /\ Finish(q)
    /\ UNCHANGED <<member, invite, expelled>>

(* DELETE: members and invites go with the row; runs stay, with no         *)
(* workspace.                                                              *)
DeleteWorkspace(q, u, w) ==
    /\ At(q, "idle") /\ Owned(w, u)
    /\ workspace' = [workspace EXCEPT ![w] = Gone]
    /\ member' = [member EXCEPT ![w] = [x \in User |-> "none"]]
    /\ invite' = [i \in Invite |->
                    IF Invited(i) /\ invite[i].ws = w THEN Gone ELSE invite[i]]
    /\ expelled' = {e \in expelled : e[1] # w}
    /\ Finish(q)

(* Mutant: the owner's own row is not spared.                              *)
RemoveMemberAny(q, u, w, m) ==
    /\ At(q, "idle") /\ Owned(w, u)
    /\ member[w][m] # "none"
    /\ member' = [member EXCEPT ![w][m] = "none"]
    /\ expelled' = expelled \cup {<<w, m>>}
    /\ Finish(q)
    /\ UNCHANGED <<workspace, invite>>

(* DELETE /members: by the owner, of anyone but the owner.                 *)
RemoveMember(q, u, w, m) ==
    /\ At(q, "idle") /\ Owned(w, u)
    /\ member[w][m] = "member"
    /\ member' = [member EXCEPT ![w][m] = "none"]
    /\ expelled' = expelled \cup {<<w, m>>}
    /\ Finish(q)
    /\ UNCHANGED <<workspace, invite>>

-----------------------------------------------------------------------------
(* POST /invites: the row; its e-mail may or may not arrive.               *)
CreateInvite(q, u, w, i) ==
    /\ At(q, "idle") /\ Owned(w, u) /\ invite[i] = None
    /\ invite' = [invite EXCEPT ![i] =
                    [ws |-> w, status |-> "pending", late |-> FALSE, by |-> None]]
    /\ Finish(q)
    /\ UNCHANGED <<workspace, member, expelled>>

(* DELETE /invites: whatever its status, an accepted one too.              *)
RevokeInvite(q, u, i) ==
    /\ At(q, "idle") /\ Invited(i) /\ Owned(invite[i].ws, u)
    /\ invite' = [invite EXCEPT ![i].status = "revoked"]
    /\ Finish(q)
    /\ UNCHANGED <<workspace, member, expelled>>

(* expires_at passes; "expired" is derived, never stored.                  *)
Expire(i) ==
    /\ Invited(i) /\ ~invite[i].late
    /\ invite' = [invite EXCEPT ![i].late = TRUE]
    /\ UNCHANGED <<req, workspace, member, expelled>>

EffectiveStatus(i) ==
    IF invite[i].status = "pending" /\ invite[i].late THEN "expired" ELSE invite[i].status

Marked(i, u) == [invite EXCEPT ![i].status = "accepted", ![i].by = u]

(* Mutant: the invite is marked first, and the member added afterwards.    *)
AcceptInviteMarksFirst(q, u, i) ==
    /\ At(q, "idle") /\ Invited(i) /\ EffectiveStatus(i) = "pending"
    /\ invite' = Marked(i, u)
    /\ Goto(q, [pc |-> "mark", inv |-> i, user |-> u])
    /\ UNCHANGED <<workspace, member, expelled>>

(* POST /invites/{token}/accept: a newcomer becomes a member in a commit   *)
(* of its own; one who is a member already has the invite marked at once.  *)
AcceptInvite(q, u, i) ==
    /\ At(q, "idle") /\ Invited(i) /\ EffectiveStatus(i) = "pending"
    /\ LET w == invite[i].ws IN
       IF member[w][u] # "none"
         THEN /\ invite' = Marked(i, u)
              /\ Finish(q)
              /\ UNCHANGED <<member, expelled>>
         ELSE /\ member' = [member EXCEPT ![w][u] = "member"]
              /\ expelled' = expelled \ {<<w, u>>}
              /\ Goto(q, [pc |-> "mark", inv |-> i, user |-> u])
              /\ UNCHANGED invite
    /\ UNCHANGED workspace

(* The second commit writes over whatever the invite has become; it fails  *)
(* if the row is gone.                                                     *)
MarkAccepted(q) ==
    /\ At(q, "mark") /\ Invited(req[q].inv)
    /\ invite' = Marked(req[q].inv, req[q].user)
    /\ Finish(q)
    /\ UNCHANGED <<workspace, member, expelled>>

-----------------------------------------------------------------------------
(* A request that fails or whose process dies goes no further.             *)
Abandon(q) ==
    /\ req[q].pc \notin {"idle", "done"}
    /\ Finish(q)
    /\ UNCHANGED wsVars

WorkspaceRequest(q) ==
    \/ \E w \in Workspace, row \in WorkspaceRow : CreateWorkspace(q, w, row)
    \/ CommitWorkspace(q)
    \/ \E u \in User, w \in Workspace, row \in WorkspaceRow : UpdateWorkspace(q, u, w, row)
    \/ \E u \in User, w \in Workspace : DeleteWorkspace(q, u, w)
    \/ \E u, m \in User, w \in Workspace : RemoveMember(q, u, w, m)
    \/ \E u \in User, w \in Workspace, i \in Invite : CreateInvite(q, u, w, i)
    \/ \E u \in User, i \in Invite : RevokeInvite(q, u, i)
    \/ \E u \in User, i \in Invite : AcceptInvite(q, u, i)
    \/ MarkAccepted(q)

WorkspaceInit ==
    /\ workspace \in [Workspace -> WorkspaceRow \cup {None}]
    /\ \A w \in Workspace : Exists(w) => Insertable(workspace[w], w)
    /\ member = [w \in Workspace |-> [u \in User |-> IF Owned(w, u) THEN "owner" ELSE "none"]]
    /\ invite \in [Invite -> InviteRow \cup {None}]
    /\ \A i \in Invite : Invited(i) =>
         Exists(invite[i].ws) /\ invite[i].status = "pending" /\ ~invite[i].late /\ invite[i].by = None
    /\ expelled = {}
=============================================================================
