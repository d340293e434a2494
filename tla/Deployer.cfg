SPECIFICATION FairSpec
CONSTANTS
    Absent = Absent
    Damaged = Damaged
    Foreign = Foreign
    Validity = 5
    Serials <- MCSerials
    Disturbances = {"request", "time", "secret", "key"}
    MaxTime = 6
    MaxChanges = 2
    MaxFaults = 1
INVARIANTS
    DeployerTypeOK
    ReconciledIsTrusted
PROPERTIES
    TrustIsKept
    Settles
