\* Everything at once: a client's requests amid the administration, which may
\* never end, writes that fail, and a plugin that gets lost at a restart.
CONSTANTS
    p1 = p1
    p2 = p2
    builtin = builtin
    none = none
    l1 = l1
    l2 = l2
    m1 = m1
    m2 = m2
    u1 = u1
    u2 = u2
    Plugins <- MCOnePlugin
    BuiltIn = builtin
    None = none
    Versions <- MCVersions
    DefaultVersion = 1
    Loads <- MCOneLoad
    Migrations <- MCMigrations
    Users <- MCOneUser
    DiskMayFail = TRUE
    Unloadable <- MCOnePlugin
SPECIFICATION FairSpec
INVARIANTS AdminInv DrainInv DescriptorsMatch SerialRestartIsFaithful SerialRoutesServed
PROPERTIES ImplementsVersionSwitch LockComesBack
