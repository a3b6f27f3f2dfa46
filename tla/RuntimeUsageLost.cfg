SPECIFICATION RuntimeSpec
CONSTANTS
    a = a
    g1 = g1
    r1 = r1
    r2 = r2
    done = done
    null = null
    NoOutput = null
    NoOutcome = null
    NoRuntime = null
    Outcome <- Outcomes
    Output <- OneOutput
    EventStage <- Events
    Runtimes <- OneRuntime
    AppErrors <- OneError
    MaxOps = 1
    InferenceCalls = 1
    ToolCalls = 1
    ExternalActions = 0
    OutputTokens <- Uncapped
    WallLimited = FALSE
    Plans <- Nothing
    Reports <- OneReport
    Guard <- Nothing
    GuardOrder <- AskNone
INVARIANTS
    UsageNeverErased
