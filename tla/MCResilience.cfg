SPECIFICATION BreakerFairSpec
CONSTANTS
    Calls = {c1, c2, c3}
    Threshold = 2
    Cooldown = 1
    MaxAttempts = 2
PROPERTIES NoAdmissionDuringCooldown NoFailoverAfterToken PrimaryReadmitted
