SPECIFICATION Spec
CONSTANTS
    Memories = {m1, m2}
    Mentions <- MCMentions
    NotText <- MCNotText
    Similar <- MCSimilar
    Findings <- MCFindings
    Claims <- MCClaims
    SourceType <- MCSourceType
    Matches <- MCMatches
    SavedNames = {"Redis"}
    Like <- MCLike
    PageSize = 1
    RecentSize = 1
    ToolSize = 2
    TopSize = 1
    MaxConcurrency = 1
    TopK = 2
    MaxWrites = 2
    MaxFailures = 1
    MaxBackfills = 1
INVARIANTS UnlinkedOnlyByFailureOrRestart PagesTruthful
PROPERTIES BackfillRepairs
SYMMETRY MCSymmetry
CHECK_DEADLOCK FALSE
