CONSTANTS
    Requests = {r1, r2}
    Docs = {d1}
    MaxTries = 2
    MaxJobs = 1
    Outcomes = {"completed", "extraction_error", "error"}
    Faults = {"db", "worker_crash", "load", "enqueue"}
    MaxFaults = 1
SPECIFICATION FairSpec
PROPERTIES
    AcceptedIsSettled
    TasksEnd
