SPECIFICATION Spec
CONSTANTS
    s1 = s1
    ns = ns
    Absent = Absent
    Foreign = Foreign
    Shoots = {s1}
    Requests = {s1}
    Namespaces = {ns}
    Namespace <- MCNamespace
    MaxConcurrentReconciles = 1
    MaxConcurrentReconcilesPerNamespace = 1
    Resources = {configmaps}
    CountConfigMaps = configmaps
    Addresses = {a1}
    CaCerts = {ca1, ca2}
    HardLimits = {1}
    MaxOthers = 0
    Scenarios <- MCDamagedCa
    MaxBacklog = 3
    MetadataLags = FALSE
INVARIANTS
    CaIsFollowed
CHECK_DEADLOCK FALSE
