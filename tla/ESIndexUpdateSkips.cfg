\* A scan while another actor updates one document: untouched documents may be missed.
CONSTANTS
    d1 = d1
    d2 = d2
    d3 = d3
    d4 = d4
    Docs <- MCDocs
    PageSize = 2
    TotalHitsLimit = 10
    MaxResultWindow = 10
    WriteKinds = {"update"}
    MaxWrites = 1
SPECIFICATION Spec
INVARIANTS CompleteScan
CHECK_DEADLOCK FALSE
