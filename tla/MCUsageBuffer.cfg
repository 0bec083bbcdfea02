SPECIFICATION FairSpec
CONSTANTS
    Calls <- MCCalls
    MaxDay = 1
    BufferMax = 1
    MaxAttempts = 2
    Retention = 0
    PriceRules <- MCPriceRules
    DefaultPrice <- MCDefaultPrice
INVARIANT ReadsFaithful
PROPERTIES ImplementsLog EventuallySettled
CHECK_DEADLOCK FALSE
