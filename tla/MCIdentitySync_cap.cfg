CONSTANTS
    n1 = n1  n2 = n2  n3 = n3
    me = me
    profile = profile  avatar = avatar  banner = banner  bio = bio
    small = small  large = large  full = full
    None = None
    Owner = me
    Size <- MCSize
    Hash <- MCHash
    Nodes = {n1, n2}
    Keys = {me}
    Names = {profile, avatar, banner, bio}
    Contents = {full}
    EntryBytes = 1
    MaxSlotBytes = 4
    MaxStateBytes = 16
    MaxFuture = 0
    MaxTime = 0
    MaxWrites = 4
SPECIFICATION FairSpec
PROPERTIES Converges
