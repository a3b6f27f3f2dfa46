SPECIFICATION Spec
CONSTANTS
    a = a
    b = b
    g1 = g1
    done = done
    null = null
    NoOutput = null
    NoOutcome = null
    Outcome <- Outcomes
    MaxOps = 4
    InferenceCalls = 3
    ToolCalls = 2
    ExternalActions = 1
    OutputTokens <- Uncapped
    WallLimited = FALSE
    Plans <- Nothing
    Reports <- Nothing
    Guard <- OneGuard
    Output <- TwoOutputs
    EventStage <- Nothing
INVARIANTS
    TypeOK
    OneAtATime
    PendingBaseCurrent
    CommitChain
    ReservationsFollowStage
    BudgetRespected
    GuardedDispatch
PROPERTIES
    ObservationIsLastReturned
    EffectNeverForgotten
    UnknownEffectBlocks
    TerminalFrozen
    ImplementsPromise
