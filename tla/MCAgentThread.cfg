SPECIFICATION FairSpec
CONSTANTS
    MaxSteps = 2
    CaptureSlots = 1
    Answers <- MCAnswers
    Gated <- MCGated
    MaxTurns = 2
    MaxStops = 1
INVARIANTS RequestAccepted OnlyApprovedRan ForcedHandled CaptureComplements ReplyFaithful
PROPERTY ComesToRest
CHECK_DEADLOCK FALSE
