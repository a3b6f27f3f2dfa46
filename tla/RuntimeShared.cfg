SPECIFICATION RuntimeSpec
SYMMETRY Symmetry
CONSTANTS
    a = a
    g1 = g1
    r1 = r1
    r2 = r2
    done = done
    null = null
    NoOutput = null
    NoOutcome = null
    NoRuntime = null
    Outcome <- Outcomes
    Output <- OneOutput
    EventStage <- Events
    Runtimes <- Both
    AppErrors <- OneError
    MaxOps = 2
    InferenceCalls = 2
    ToolCalls = 2
    ExternalActions = 0
    OutputTokens <- Uncapped
    WallLimited = FALSE
    Plans <- Nothing
    Reports <- OneReport
    Guard <- OneGuard
    GuardOrder <- AskOne
INVARIANTS
    EffectAtMostOnce
    EventsTellTruth
    RejectionHadNoEffect
PROPERTIES
    ClosedOperationStaysClosed
