CONSTANTS
    n1 = n1  n2 = n2
    me = me  other = other
    profile = profile  avatar = avatar
    empty = empty  small = small  large = large  huge = huge
    None = None
    Owner = me
    Size <- MCSize
    Hash <- MCHash
    Nodes = {n1}
    Keys = {me, other}
    Names = {profile, avatar}
    Contents = {empty, large, huge}
    EntryBytes = 1
    MaxSlotBytes = 2
    MaxStateBytes = 5
    MaxFuture = 0
    MaxTime = 1
    MaxIssued = 2
    MaxBatch = 2
    MaxSums = 1
    MaxGarbled = 1
SPECIFICATION Spec
INVARIANTS TypeOK ReplicasValid AcknowledgedIsApplied ReplicasAuthentic DeltaIsEnough
PROPERTIES ImplementsRegister NeverRegresses
