SPECIFICATION FairSessionSpec
CONSTANTS
    a = a
    g1 = g1
    g2 = g2
    r1 = r1
    r2 = r2
    done = done
    null = null
    NoOutput = null
    NoOutcome = null
    NoRuntime = null
    Outcome <- Outcomes
    Output <- OneOutput
    EventStage <- Events
    Runtimes <- Both
    Sessions <- OneRuntime
    AppErrors <- OneError
    MaxOps = 1
    InferenceCalls = 1
    ToolCalls = 1
    ExternalActions = 0
    OutputTokens = 2
    WallLimited = TRUE
    Plans <- OnePlan
    Reports <- TwoReports
    Guard <- TwoGuards
    GuardOrder <- AskTwo
INVARIANTS
    ReportedBeforeUse
PROPERTIES
    CallsEnd
    SessionEnds
