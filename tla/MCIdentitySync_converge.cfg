CONSTANTS
    n1 = n1  n2 = n2  n3 = n3
    me = me
    profile = profile  avatar = avatar  banner = banner  bio = bio
    small = small  large = large  full = full
    None = None
    Owner = me
    Size <- MCSize
    Hash <- MCHash
    Nodes = {n1, n2}
    Keys = {me}
    Names = {profile, avatar}
    Contents = {small, large}
    EntryBytes = 1
    MaxSlotBytes = 2
    MaxStateBytes = 6
    MaxFuture = 0
    MaxTime = 1
    MaxWrites = 2
SPECIFICATION FairSpec
PROPERTIES Converges AcknowledgedSpreads
