\* Two services with two statuses and two versions.
CONSTANTS
    s1 = s1
    s2 = s2
    m1 = m1
    Services <- MCServices
    Statuses <- MCStatuses
    Versions <- MCVersions
    Metas <- MCMetas
    Defaults <- MCDefaults
    NoEntry = NoEntry
    Absent = Absent
    Unreadable = Unreadable
    Down = Down
SPECIFICATION Spec
INVARIANTS TypeOK NeverUnreadable
PROPERTY ImplementsAtomicStore
