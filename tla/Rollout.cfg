SPECIFICATION FairSpec
CONSTANTS
    Unset = Unset
    Broken = Broken
    Clusters = {"c1", "c2"}
    Namespaces = {"gardenlogin-system", "garden", "garden-dev"}
    ProjectNamespaces = {"garden", "garden-dev"}
    ImageRefs = {"first", "second", "proxy", "shipped"}
    Quantities = {"cpu", "memory"}
    Amounts = {"100m"}
    Documents <- MCDocuments
    Offers <- MCOffers
    Descriptors <- MCDescriptors
    MaxEdits = 2
    MaxFaults = 1
INVARIANTS
    RolloutTypeOK
    ProjectsKept
    SettingsAreMeant
PROPERTIES
    RightClusters
    RollsOut
