SPECIFICATION FairLoopSpec
CONSTANTS
    s1 = s1
    s2 = s2
    s3 = s3
    na = na
    Requests = {s1, s2, s3}
    Namespaces = {na}
    Namespace <- MCNamespace
    MaxConcurrentReconciles = 3
    MaxConcurrentReconcilesPerNamespace = 2
INVARIANTS
    LoopTypeOK
    CounterExact
    LimitsHold
PROPERTIES
    NoLostRequest
    WaitersAreAdmitted
    ImplementsSlots
