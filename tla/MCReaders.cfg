CONSTANTS
    shop = shop  forum = forum  good = good  bad = bad
    profile = profile  me = me  other = other
    Keys = {me, other}
    Owner = me
    Names = {profile}
    Contents <- MCContents
    Size <- MCSize
    Hash <- MCHash
    EntryBytes = 1
    MaxSlotBytes = 1
    MaxStateBytes = 10
    MaxFuture = 0
    None = None
    WellFormed <- MCWellFormed
    Tombstone = Tombstone
    Apps = {shop, forum}
    Personas = {me, other}
    Foreign <- MCForeign
    Writings <- MCWritings
    MaxProofAge = 1
    MaxTime = 2
    MaxChallenges = 1
    MaxStates = 2
    MaxAnswers = 1
SPECIFICATION Spec
INVARIANTS TypesOK Consent ShownIsPublished ReturnsOnlyPublished HonestStateIsRead
PROPERTIES ShownClimbs ProfileSettles FetchEnds
CHECK_DEADLOCK FALSE
