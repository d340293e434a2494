SPECIFICATION QuotaSpec
CONSTANTS
    configmaps = configmaps
    pods = pods
    Resources = {configmaps, pods}
    CountConfigMaps = configmaps
    QuotaNames = {q1, q2}
    Objects <- MCObjects
INVARIANTS
    WaitIsJustified
    WaitingWouldBeRefused
