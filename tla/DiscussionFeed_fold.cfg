CONSTANTS
    MaxRows = 2
    MaxInstant = 2
    NumSuffix = 2
    LastN = 2
    MaxResults = 3
    MayQuote = TRUE
SPECIFICATION FeedSpec
INVARIANTS OncePerRequest PlaceholderBacked FirstKept
PROPERTIES PrefixKept
CHECK_DEADLOCK FALSE
