CONSTANTS
    Lookups = {c1, c2}
    Mappers = {m1, m2, m3}
    NoMapper = NoMapper
    MaxTypeChanges = 2
    Builders = {b1, b2, b3}
    Groups = {core, apps}
    Core = core
    Readers = {p1, p2}
    Refs = {r1, r2}
    KeyOf <- SameKey
    EnvValues = {v1, v2}
    NoValue = NoValue
    Expiries <- SomeExpiries
    DefaultExpiry = 2
    FetchTime = 1
    Horizon = 5
    MaxEnvChanges = 2
    Controllers = {d1, d2}
    Types = {ready, synced}
    Statuses = {true, false}
    Absent = Absent
    MaxVersions = 3
    Callers = {e1, e2}
    EntryNames = {own, other}
    Own = {own}
    Nil = Nil
    MaxOtherWrites = 2
    Unset = Unset
    Given = Given
    GivenObjects <- SomeObjects
    MaxLength = 5
    MaxName = 12
    MaxWords = 4
    NodePorts = {30001, 30002}
SPECIFICATION Spec
INVARIANTS
    TypeOK
    
    ClientForGroup
    BoundedStaleness
    NilMeansSet
    EnsureKeepsOthers
    DefaultsStable
    HelpersBounded

    
CHECK_DEADLOCK FALSE
