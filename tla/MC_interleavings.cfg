CONSTANTS
    Requests = {r1, r2, r3}
    Docs = {d1}
    MaxTries = 1
    MaxJobs = 2
    Outcomes = {"completed", "partial", "failed", "extraction_error"}
    Faults = {}
    MaxFaults = 0
SPECIFICATION Spec
SYMMETRY Symmetry
INVARIANTS
    TypeOK
    CompletedHasResult
