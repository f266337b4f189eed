\* Two trades; a sweep may come at any time and need not.  No symmetry, which is unsound for liveness.
CONSTANTS
    r1 = r1
    r2 = r2
    Requests <- MCRequests
    Timeout = 5
    CheckInterval = 2
    Sweeper = TRUE
SPECIFICATION FairSpec
INVARIANTS
    GrantedOnlyIfApproved
    PendingIsUnanswered
    NeverGivesUpEarly
PROPERTIES
    VerdictFinal
    GateSpec
    HonouredIfPolled
    CallerReturns
