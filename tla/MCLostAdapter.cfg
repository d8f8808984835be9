\* A load and a migration at a time, and writes that fail.
CONSTANTS
    p1 = p1
    p2 = p2
    builtin = builtin
    none = none
    l1 = l1
    l2 = l2
    m1 = m1
    m2 = m2
    u1 = u1
    u2 = u2
    Plugins <- MCOnePlugin
    BuiltIn = builtin
    None = none
    Versions <- MCVersions
    DefaultVersion = 1
    Loads <- MCOneLoad
    Migrations <- MCMigrations
    Users <- MCNobody
    DiskMayFail = TRUE
    Unloadable <- MCNobody
SPECIFICATION Spec
PROPERTY RejectedLoadRetains
