SPECIFICATION Spec
CONSTANTS
    Absent = Absent
    Users = {u1, u2}
    Sizes = {1, 2, 3}
    MaxObjectSize = 2
    MaxWrites = 4
    MaxChanges = 2
    MaxFaults = 1
SYMMETRY Symmetry
INVARIANTS
    KubeconfigsAreManaged
PROPERTIES
    KubeconfigsAreKept
CHECK_DEADLOCK FALSE
