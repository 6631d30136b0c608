\* A scan while another actor updates one document (heartbeat: last_seen).
CONSTANTS
    d1 = d1
    d2 = d2
    d3 = d3
    d4 = d4
    Docs <- MCDocs
    PageSize = 2
    TotalHitsLimit = 10
    MaxResultWindow = 10
    WriteKinds = {"update"}
    MaxWrites = 1
SPECIFICATION Spec
INVARIANTS NoDuplicateYield
CHECK_DEADLOCK FALSE
