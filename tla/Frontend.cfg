SPECIFICATION FairSpec
CONSTANTS
    None = None
    RunId = {r1, r2}
    Draft = {"a"}
    DemoSql = "demo"
    MaxFlights = 2
    MaxMishaps = 1
INVARIANTS PinNamesThisRun
PROPERTIES OutcomeShown HoldEndsShown
CHECK_DEADLOCK FALSE
