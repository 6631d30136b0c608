\* Scan of a four-document index, pages of one and a result window of three
\* (so a full index is refused past it), while other actors insert, update
\* and delete up to three times.
CONSTANTS
    d1 = d1
    d2 = d2
    d3 = d3
    d4 = d4
    Docs <- MCDocs
    PageSize = 1
    TotalHitsLimit = 10
    MaxResultWindow = 3
    WriteKinds = {"insert", "update", "delete"}
    MaxWrites = 3
SPECIFICATION Spec
PROPERTIES ScanTerminates
\* The scan is a generator that stops: a finished scan has no next step.
CHECK_DEADLOCK FALSE
