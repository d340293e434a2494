SPECIFICATION Spec
CONSTANTS
    s1 = s1
    ns = ns
    Absent = Absent
    Foreign = Foreign
    Shoots = {s1}
    Requests = {s1}
    Namespaces = {ns}
    Namespace <- MCNamespace
    MaxConcurrentReconciles = 1
    MaxConcurrentReconcilesPerNamespace = 1
    Resources = {configmaps}
    CountConfigMaps = configmaps
    Addresses = {a1}
    CaCerts = {ca1, ca2}
    HardLimits = {1}
    MaxOthers = 0
    Scenarios <- MCSettles
    MaxBacklog = 2
    MetadataLags = FALSE
SYMMETRY MCCaSymmetry
INVARIANTS
    TypeOK
    PromptlySettled
    GoneIsGone
    KubeconfigKept
CHECK_DEADLOCK FALSE
