------------------------------ MODULE RunAccess ------------------------------
(* Who a request acts for, and which runs it may name (middleware_auth.py,    *)
(* tenancy.py, the dependencies of runs.py).  A token is what it verifies as; *)
(* how signatures are checked is left out.                                    *)
EXTENDS FiniteSets

CONSTANT None

\* s.clerk: both Clerk keys are set; s.custom: AUTH_ENABLED.
AuthEnforced(s) == s.custom \/ s.clerk

Open == {"root", "health", "docs", "slack_callback"}
Public == Open \cup {"auth", "github_callback", "webhook", "invites"}

\* The Bearer token, or the query parameter that the event stream may use.
TokenOf(q) ==
    IF q.header # None THEN q.header
    ELSE IF q.route = "shadow_stream" THEN q.query ELSE None

\* A token: [method, sub, valid].  One of a method that is off is not tried,
\* and a custom token needs a secret to be checked with.
Verified(s, t) ==
    /\ t.valid /\ t.sub # None
    /\ \/ s.clerk /\ t.method = "clerk"
       \/ s.custom /\ s.secret /\ t.method = "custom"

Pass(owner) == [status |-> 200, owner |-> owner]
Reject(status) == [status |-> status, owner |-> None]

\* SessionAuthMiddleware.
SessionAuth(s, q) ==
    IF ~AuthEnforced(s) THEN Pass(None)
    ELSE IF TokenOf(q) # None /\ Verified(s, TokenOf(q)) THEN Pass(TokenOf(q).sub)
    ELSE IF q.route \in Public THEN Pass(None)
    ELSE IF TokenOf(q) # None /\ s.custom /\ ~s.secret THEN Reject(503)
    ELSE Reject(401)

\* DemoApiKeyMiddleware; its own list of public paths is the shorter one.
DemoApiKey(s, q) ==
    IF s.demoKey = None \/ q.route \in Open \/ q.key = s.demoKey
    THEN 200 ELSE 401

\* The session's middleware is the outer one.
Admit(s, q) ==
    LET outer == SessionAuth(s, q)
    IN IF outer.status = 200 /\ DemoApiKey(s, q) # 200 THEN Reject(401) ELSE outer

\* The token's owner wins; without authentication the client names itself.
ResolveOwner(s, session, claimed) ==
    IF AuthEnforced(s)
    THEN IF session = None THEN Reject(401) ELSE Pass(session)
    ELSE IF claimed = None THEN Reject(422) ELSE Pass(claimed)

\* The filter a listing uses: the session's owner where there is one to use.
ListOwner(s, session, asked) == IF AuthEnforced(s) THEN session ELSE asked

\* A run is open to its owner, and to members of the workspace it is in;
\* members holds the pairs of a workspace and one who belongs to it.
MayOpen(s, session, run, members) ==
    \/ ~AuthEnforced(s)
    \/ /\ session # None
       /\ \/ run.owner = session
          \/ run.workspace # None /\ <<run.workspace, session>> \in members
=============================================================================
