CONSTANTS
    Requests = {r1}
    Docs = {d1}
    MaxTries = 1
    MaxJobs = 1
    Outcomes = {"completed"}
    Faults = {"in_doubt"}
    MaxFaults = 1
SPECIFICATION Spec
PROPERTIES
    OnlyOrphansDeleted
