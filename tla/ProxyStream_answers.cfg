SPECIFICATION FairSpec
CONSTANTS
    None = none
    Indexes <- ThreeIndexes
    Objects <- ObjectArguments
    Braced <- BracedArguments
    Chunks <- MixedChunks
    Reasons <- TwoReasons
    ReasoningCap = 2
    BufferCap = 3
    MaxLines = 3
    Agents <- AllAgents
    SessionID = session
INVARIANT SilentAnswerSpeaks
INVARIANT CallsAreWhole
INVARIANT LoggedIsShown
INVARIANT VisibleTextKept
PROPERTY KeepsProtocol
PROPERTY AnswerCompletes
CHECK_DEADLOCK FALSE
