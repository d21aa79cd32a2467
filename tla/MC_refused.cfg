CONSTANTS
    Requests = {r1, r2}
    Docs = {d1}
    MaxTries = 1
    MaxJobs = 1
    Outcomes = {"completed"}
    Faults = {"enqueue"}
    MaxFaults = 1
SPECIFICATION Spec
PROPERTIES
    RefusedJobRunsInline
