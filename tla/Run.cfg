SPECIFICATION FairSpec
CONSTANTS
    q1 = q1
    q2 = q2
    q3 = q3
    Request = {q1, q2}
    PatchTo = {"pending", "predicting", "awaiting_approval", "running", "failed"}
INVARIANTS TypeOK ExecutionApproved DecisionRespected NoticeMatchesOutcome CompletedHasEvidence
PROPERTIES LegalStatus LinkedRunSettles WorkflowSettles
CHECK_DEADLOCK FALSE
