SPECIFICATION SessionSpec
CONSTANTS
    a = a
    g1 = g1
    g2 = g2
    r1 = r1
    r2 = r2
    done = done
    null = null
    NoOutput = null
    NoOutcome = null
    NoRuntime = null
    Outcome <- Outcomes
    Output <- OneOutput
    EventStage <- Events
    Runtimes <- Both
    Sessions <- OneRuntime
    AppErrors <- AnyError
    MaxOps = 2
    InferenceCalls = 2
    ToolCalls = 1
    ExternalActions = 0
    OutputTokens <- Uncapped
    WallLimited = FALSE
    Plans <- Nothing
    Reports <- OneReport
    Guard <- Nothing
    GuardOrder <- AskNone
INVARIANTS
    CountsThisInvocation
