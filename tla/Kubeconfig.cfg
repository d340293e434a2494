SPECIFICATION Spec
CONSTANTS
    None = None
    Damaged = Damaged
    ShootRefs <- MCShootRefs
    AddressLists <- MCAddressLists
    CaResources <- MCCaResources
    Certificates = {"ca1", "ca2"}
    Identities = {"garden1", "garden2"}
INVARIANTS
    Connects
PROPERTIES
    RenderedAnew
