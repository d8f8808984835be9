\* Two loads at a time, no fault.
CONSTANTS
    p1 = p1
    p2 = p2
    builtin = builtin
    none = none
    l1 = l1
    l2 = l2
    m1 = m1
    m2 = m2
    u1 = u1
    u2 = u2
    Plugins <- MCPlugins
    BuiltIn = builtin
    None = none
    Versions <- MCVersions
    DefaultVersion = 1
    Loads <- MCLoads
    Migrations <- MCNobody
    Users <- MCNobody
    DiskMayFail = FALSE
    Unloadable <- MCNobody
SPECIFICATION Spec
INVARIANT DescriptorsPersisted
