SPECIFICATION FairSpec
CONSTANTS
    Ids <- SmallIds
    Calls <- SmallCalls
INVARIANTS
    AcceptsExactly
    ResultExact
    SearchInvariant
PROPERTIES
    Terminates
