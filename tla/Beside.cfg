SPECIFICATION BesideSpec
CONSTANTS
    PipeCap = 2
    ReadSize = 2
    OutputBytes = 3
    MaxWrite = 4
    u1 = u1
    u2 = u2
    alien = alien
    Nowhere = Nowhere
    Origin <- Origins
    Permitted <- TwoPermitted
    MaxBytes = 3
    MaxRedirects = 2
    MaxChunk = 2
    t1 = t1
    t2 = t2
    NoName = NoName
    Name <- TwoNames
    MaxTokens = 2
    Counts <- OneCount
    Grants <- OneGranted
    Ceilings <- Limits
    Availables <- Limits
    MaxCharacters = 9
    Separator = 2
    MaxItems = 3
    Sizes <- SomeSizes
    Priorities <- LowHigh
INVARIANTS
    BesideTypeOK
    NothingLeftRunning
    AnswerIsWhole
    OnlyPermittedContacted
    ResponseIsWhole
    DispatchAuthorised
    CeilingRespected
    UsageAccounted
    OutcomeIsTrue
    ContextSelection
PROPERTIES
    CallsReturn
