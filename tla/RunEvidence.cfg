SPECIFICATION Spec
CONSTANTS
    r1 = r1
    r2 = r2
    o1 = o1
    Run = {r1, r2}
    NoRun = NoRun
    Shape = {"shape"}
    g1 = g1
    g2 = g2
    Pipeline = {g1, g2}
    Owner = {o1}
    Results <- MCResults
    MayMeasure <- MCMayMeasure
    OwnerOf <- MCOwnerOf
    ShapeOf <- MCShapeOf
    RevisedBy <- MCRevisedBy
    PredictionOf <- MCPredictionOf
    TierOf <- MCTierOf
    HighRisk <- MCHighRisk
    PoolBound = 2
SYMMETRY MCSymmetry
CONSTRAINTS RevisedFirst ConsentKept
INVARIANTS TypeOK EmbeddingOfText PoolCountsPromotions
PROPERTIES CompletedAgrees
CHECK_DEADLOCK FALSE
