\* A quiet index holding more documents than track_total_hits counts exactly
\* (limit a multiple of the page size, as 10000 is of 100).
CONSTANTS
    d1 = d1
    d2 = d2
    d3 = d3
    d4 = d4
    Docs <- MCDocs
    PageSize = 2
    TotalHitsLimit = 2
    MaxResultWindow = 10
    WriteKinds = {}
    MaxWrites = 0
SPECIFICATION Spec
INVARIANTS CompleteScan
CHECK_DEADLOCK FALSE
