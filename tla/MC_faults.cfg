CONSTANTS
    Requests = {r1, r2}
    Docs = {d1}
    MaxTries = 2
    MaxJobs = 1
    Outcomes = {"completed", "extraction_error", "error"}
    Faults = {"db", "in_doubt", "save", "undo", "load", "enqueue", "reply_lost", "timeout", "api_crash", "worker_crash"}
    MaxFaults = 2
SPECIFICATION Spec
SYMMETRY Symmetry
INVARIANTS
    AbandonedIsExplained
    ExtractedOnce
    DocumentHasFile
    NoOrphanUpload
    UsageIsLedgered
PROPERTIES
    ImplementsLifecycle
