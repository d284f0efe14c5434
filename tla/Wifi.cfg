SPECIFICATION Spec
CONSTANTS
    s1 = s1
    s2 = s2
    l1 = l1
    l2 = l2
    None = None
    Stations <- TwoStations
    Networks = {"home"}
    Default = "home"
    Leases <- TwoLeases
    MaxEvents = 2
SYMMETRY Interchangeable
INVARIANTS
    TypeOK
    OneAdmitted
    NamesLiveAddress
    NeverStranded
    FindsDriverAtRest
PROPERTIES
    SavedComesBack
CHECK_DEADLOCK FALSE
