------------------------ MODULE ShadowInvestigation ------------------------
(***************************************************************************)
(* The blast-radius investigation: a tool-use loop between a Bedrock model *)
(* and the shadow cluster, read-only and with a budget.  The model is a    *)
(* sequence of replies, each with the tools it asks for; a reply may also  *)
(* be an error.  The whole loop is a value: Investigate(env, replies).     *)
(***************************************************************************)
EXTENDS Integers, Sequences, SequencesExt

WriteTools == {"create_database", "create_table", "insert_rows"}
MemoryTool == "search_prior_migrations"

\* boto answers by model id: "ok", "profile" (an inference profile is
\* required), "access" (no model access) or "failed".
ModelCandidates(model) ==
    IF model.bare THEN <<model.id, model.profile>> ELSE <<model.id>>

Converse(model, answer) ==
    LET ids == ModelCandidates(model)
        Rejected(k) == answer[ids[k]] = "profile" /\ k < Len(ids)
        last == CHOOSE k \in 1..Len(ids) :
                    ~Rejected(k) /\ \A j \in 1..(k - 1) : Rejected(j)
    IN answer[ids[last]]

-----------------------------------------------------------------------------
(* The MCP session: writes are refused, and it counts its own calls.       *)

ToolDefs(server) == server.tools \ WriteTools

\* The tools of the toolConfig: memory only when a session and an embedding
\* client can serve it.
OfferedTools(env) ==
    ToolDefs(env.server) \cup (IF env.local THEN {MemoryTool} ELSE {})

CallTool(s, name, max) ==
    IF name \in WriteTools
    THEN [s EXCEPT !.log = Append(@, <<name, "refused">>)]
    ELSE IF s.made >= max
         THEN [s EXCEPT !.log = Append(@, <<name, "budget">>)]
         ELSE [s EXCEPT !.made = @ + 1, !.log = Append(@, <<name, "ran">>)]

\* The memory search runs here, against the application's own database.
\* Asked for without a database session it fails its assertion.
SearchPriorMigrations(s, env) ==
    [s EXCEPT !.log = Append(@, <<MemoryTool, IF env.local THEN "served" ELSE "failed">>)]

ToolExecutor(s, env, name) ==
    IF name = MemoryTool
    THEN SearchPriorMigrations(s, env)
    ELSE CallTool(s, name, env.maxCalls)

-----------------------------------------------------------------------------
(* converse_with_tools.                                                    *)

Fresh == [turns |-> 0, calls |-> 0, made |-> 0, log |-> <<>>,
          hit |-> FALSE, state |-> "asking"]

Dispatch(s, env, name) ==
    IF s.calls >= env.maxCalls
    THEN [s EXCEPT !.hit = TRUE, !.log = Append(@, <<name, "exhausted">>)]
    ELSE ToolExecutor([s EXCEPT !.calls = @ + 1], env, name)

\* One reply.  The loop ends on a reply without tools, on the turn that
\* meets the end of the budget, and after maxTurns turns.
Turn(s, env, reply) ==
    IF s.state # "asking" THEN s
    ELSE IF reply.answer # "ok" THEN [s EXCEPT !.state = "failed"]
    ELSE LET called == FoldLeft(LAMBDA acc, name : Dispatch(acc, env, name), s, reply.tools)
         IN [called EXCEPT
                !.turns = @ + 1,
                !.state = IF reply.tools = <<>> \/ called.hit \/ s.turns + 1 = env.maxTurns
                          THEN "final" ELSE "asking"]

ConverseWithTools(env, replies) ==
    FoldLeft(LAMBDA s, reply : Turn(s, env, reply), Fresh, replies)

-----------------------------------------------------------------------------
(* investigate: None without a session, without a readable tool, or when   *)
(* the model fails; otherwise a trace whose calls are the log.  _run_blast *)
(* _radius_investigation skips it when there is no model or no snapshot.   *)

NoTrace == [state |-> "none"]

Investigate(env, replies) ==
    IF \/ ~env.model
       \/ ~env.snapshot
       \/ ~env.server.up
       \/ ToolDefs(env.server) = {}
       \/ ConverseWithTools(env, replies).state = "failed"
    THEN NoTrace
    ELSE ConverseWithTools(env, replies)

\* What the row's timings say of the tools: the model's verdict, or that the
\* investigation ran without one, or that it was not available.
ToolsSummary(trace, verdict) ==
    IF trace = NoTrace THEN "unavailable" ELSE IF verdict THEN "verdict" ELSE "ran"
=============================================================================
