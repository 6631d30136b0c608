\* prepare run up to three times against a cluster in any prior state,
\* failing at any call.
CONSTANTS
    OldDocs = {1, 2}
    MaxRuns = 3
SPECIFICATION Spec
INVARIANTS TypeOK CompletedRunResets PrepareInv
\* The tool stops after a completed run, or after the last failed one.
CHECK_DEADLOCK FALSE
