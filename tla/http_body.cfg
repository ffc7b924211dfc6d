SPECIFICATION FairSpec
CONSTANTS
    Responses <- All
    Limit = 1
    Window = 2
    HeaderWait = 1
    MaxHeaders = 5
    MaxElapsed = 18
INVARIANTS
    OnlyBody
    OkIsWhole
    FastNotAborted
PROPERTY Ends
