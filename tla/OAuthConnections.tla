-------------------------- MODULE OAuthConnections --------------------------
(* A user's Slack workspace and GitHub identity: the two OAuth flows, which *)
(* differ in nothing but the provider (slack_oauth_service.py,             *)
(* github_identity_oauth_service.py), and the notices that go to Slack.    *)
EXTENDS Workspaces

CONSTANT Account    \* what a user can connect: a Slack team, a GitHub login

Provider == {"slack", "github"}

VARIABLES
    connection,     \* slack_installations, github_identities: an account per user
    notices         \* history: the Slack messages about runs, and where they went

oauthVars == <<connection, notices>>

(* GET /install hands out a signed state that names the user and lapses;   *)
(* nothing is stored.  GET /oauth/callback: the provider sends the browser *)
(* back with a code for an account, the state is verified and the code is  *)
(* exchanged.  Any refusal or failure is a redirect and stores nothing     *)
(* (Abandon).                                                              *)
OAuthCallback(q, p, u, a) ==
    /\ At(q, "idle")
    /\ Goto(q, [pc |-> "exchange", provider |-> p, user |-> u, account |-> a])
    /\ UNCHANGED <<wsVars, oauthVars>>

(* The upsert: one connection per user, every field of it from this        *)
(* exchange, over whatever has been connected or disconnected meanwhile.   *)
Connect(q) ==
    LET r == req[q] IN
    /\ At(q, "exchange")
    /\ connection' = [connection EXCEPT ![r.provider][r.user] = r.account]
    /\ Finish(q)
    /\ UNCHANGED <<wsVars, notices>>

Disconnect(q, p, u) ==
    /\ At(q, "idle") /\ connection[p][u] # None
    /\ connection' = [connection EXCEPT ![p][u] = None]
    /\ Finish(q)
    /\ UNCHANGED <<wsVars, notices>>

OAuthRequest(q) ==
    \/ \E p \in Provider, u \in User, a \in Account : OAuthCallback(q, p, u, a)
    \/ Connect(q)
    \/ \E p \in Provider, u \in User : Disconnect(q, p, u)

OAuthInit ==
    /\ connection = [p \in Provider |-> [u \in User |-> None]]
    /\ notices = {}

SlackOf(u) == connection["slack"][u]

(* A Slack notice about u's run goes to whoever connected Slack for u, or  *)
(* nowhere; it is sent once, and what goes wrong is only logged.           *)
SlackNotice(u, about) == {<<about, a>> : a \in {SlackOf(u)} \ {None}}

(* Sent, or lost.                                                          *)
Send(u, about) == notices' \in {notices, notices \cup SlackNotice(u, about)}
=============================================================================
