SPECIFICATION HistorySpec
CONSTANTS
    s1 = s1
    s2 = s2
    ns = ns
    Absent = Absent
    Foreign = Foreign
    Shoots = {s1, s2}
    Requests = {s1, s2}
    Namespaces = {ns}
    Namespace <- MCNamespace
    MaxConcurrentReconciles = 2
    MaxConcurrentReconcilesPerNamespace = 2
    Resources = {configmaps}
    CountConfigMaps = configmaps
    Addresses = {a1}
    CaCerts = {ca1, ca2}
    HardLimits = {1, 2}
    MaxOthers = 0
    Scenarios <- MCTwo
    MaxBacklog = 2
    MetadataLags = FALSE
SYMMETRY MCSymmetry
INVARIANTS
    PromptlySettled
PROPERTIES
    KeepsPromise
CHECK_DEADLOCK FALSE
