SPECIFICATION Spec
CONSTANTS
    a = a
    b = b
    g1 = g1
    done = done
    null = null
    NoOutput = null
    NoOutcome = null
    Outcome <- Outcomes
    MaxOps = 4
    InferenceCalls = 4
    ToolCalls = 0
    ExternalActions = 0
    OutputTokens = 3
    WallLimited = FALSE
    Plans <- SomePlans
    Reports <- SomeReports
    Guard <- Nothing
    Output <- OneOutput
    EventStage <- Nothing
INVARIANTS
    OutputBounded
    NoModelRequestAfterExposure
    UsageSummary

