SPECIFICATION FairSpec
CONSTANTS
    N = 2
    Calls = {c1, c2}
    Policy = "round_robin"
    Cooldown = TRUE
    ActiveHealth = TRUE
    UnhealthyThreshold = 1
    FailureThreshold = 2
    SuccessThreshold = 2
INVARIANTS TypeOK BusyMatchesInFlight HealthStateAgrees
PROPERTIES RefinesFailover CallsReturn RecoveredMemberHealthy
