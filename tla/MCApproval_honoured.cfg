\* The application: nothing calls check_expired.
CONSTANTS
    r1 = r1
    r2 = r2
    Requests <- MCRequests
    Timeout = 5
    CheckInterval = 2
    Sweeper = FALSE
SPECIFICATION Spec
INVARIANTS
    ApprovalHonoured
