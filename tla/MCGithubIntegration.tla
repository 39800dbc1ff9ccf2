------------------------ MODULE MCGithubIntegration -------------------------
(* Values for model-checking GithubIntegration.                            *)
EXTENDS GithubIntegration, TLC, MCSchemaMigrations

CONSTANTS w1, w2, q1, q2, q3, r1, r2

MCRepoOf(c) == CHOOSE r \in Repo : TRUE

MCSymmetry == Permutations(Request) \cup Permutations(Run) \cup Permutations(Workspace)

(* Invites, which no run reads, are explored without runs.  Once a run's   *)
(* verification is under way, it is the only one, and nobody is connecting *)
(* or creating a workspace: the workspaces and the ends of runs are        *)
(* explored apart.                                                         *)
UnderWay(r) == run[r] # None /\ run[r].workflow # "none"
Apart ==
    /\ (\E r \in Run : run[r] # None) =>
          /\ \A i \in Invite : invite[i] = None
          /\ \A q \in Request : req[q].pc # "mark"
    /\ (\E r \in Run : UnderWay(r)) \/ (\E q \in Request : req[q].pc \in {"launch", "started"}) =>
          /\ Cardinality({r \in Run : UnderWay(r)}) <= 1
          /\ \A w \in Workspace : Exists(w) => workspace[w].connected /\ workspace[w].repo # None
          /\ \A p \in Provider, u \in User : connection[p][u] = None
          /\ \A q \in Request : req[q].pc \notin {"create", "exchange"}

(* Access: over every setting and request, what a route that is not public *)
(* is given is a session where one is enforced, so that no listing is ever *)
(* unfiltered; the stream's query parameter serves the stream alone; and a *)
(* member opens the runs of a workspace, and no others of its owner.       *)
Access == INSTANCE RunAccess
MCToken == [method : {"clerk", "custom"}, sub : {"alice", None}, valid : BOOLEAN] \cup {None}
MCSettings == [clerk : BOOLEAN, custom : BOOLEAN, secret : BOOLEAN, demoKey : {"key", None}]
MCRequests == [route : {"runs", "shadow_stream", "invites", "webhook", "health"},
               header : MCToken, query : MCToken, key : {"key", None}]
ASSUME ListingsAreScoped ==
    \A s \in MCSettings, q \in MCRequests :
        Access!AuthEnforced(s) /\ q.route \notin Access!Public /\ Access!Admit(s, q).status = 200
            => Access!ListOwner(s, Access!Admit(s, q).owner, None) = "alice"
ASSUME QueryTokenOfStream ==
    \A s \in MCSettings, q \in MCRequests :
        q.route # "shadow_stream" =>
            Access!SessionAuth(s, q) = Access!SessionAuth(s, [q EXCEPT !.query = None])
ASSUME MembersOpenShared ==
    \A s \in {s \in MCSettings : Access!AuthEnforced(s)}, w \in {"w", None} :
        LET members == {<<"w", "bob">>}
            shared == [owner |-> "alice", workspace |-> w]
        IN /\ Access!MayOpen(s, "bob", shared, members) = (w # None)
           /\ Access!MayOpen(s, "alice", shared, members)
           /\ ~Access!MayOpen(s, None, shared, members)
=============================================================================
