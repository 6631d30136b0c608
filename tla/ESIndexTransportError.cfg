\* A quiet index; the cluster may fail to answer a request.
CONSTANTS
    d1 = d1
    d2 = d2
    d3 = d3
    d4 = d4
    Docs <- MCDocs
    PageSize = 2
    TotalHitsLimit = 10
    MaxResultWindow = 10
    WriteKinds = {}
    MaxWrites = 0
SPECIFICATION Spec
INVARIANTS NoErrorEscapes
CHECK_DEADLOCK FALSE
