SPECIFICATION Spec
CONSTANTS
    MaxScans = 3
    MaxJobs = 3
CHECK_DEADLOCK FALSE
INVARIANTS NewestShown VendorsFound
