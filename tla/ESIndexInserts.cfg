\* Scan of a four-document index, pages of two, while other actors insert;
\* CompleteScanInv (which includes InsertOnlyInv) is the inductive invariant of the proofs.
CONSTANTS
    d1 = d1
    d2 = d2
    d3 = d3
    d4 = d4
    Docs <- MCDocs
    PageSize = 2
    TotalHitsLimit = 10
    MaxResultWindow = 10
    WriteKinds = {"insert"}
    MaxWrites = 2
SPECIFICATION Spec
INVARIANTS TypeOK NoDuplicateYield CompleteScan CompleteScanInv
PROPERTY ImplementsPagedScan
\* The scan is a generator that stops: a finished scan has no next step.
CHECK_DEADLOCK FALSE
