SPECIFICATION Spec
CONSTANTS
    Lines <- MCLines
    MaxLines = 3
    Searches <- MCSearches
    Batch = 2
    MatchCap = 1
    TextCap = 3
    JsonCap = 6
INVARIANT EachMatchInContext
